---- MODULE Spec2Model ----
(***************************************************************************)
(* A model of the SQL transformation framework (src/src/framework):        *)
(*   - DependencyGraph (dependency.py): add_model, remove_model, cycle     *)
(*     detection, level-parallel topological sort, execution order;        *)
(*   - StateManager (state.py) and PlanGenerator (plan.py);                *)
(*   - PolarsCDCMaterialization (cdc_polars.py), the retirement pattern;   *)
(*   - ModelExecutor (executor.py) driven by run_all (cli.py).             *)
(* Each subsystem has its own specification (SpecGraph, SpecPlan, SpecCDC, *)
(* SpecRun); the variables of the other subsystems stay at their initial   *)
(* values.                                                                 *)
(***************************************************************************)
EXTENDS Integers, Sequences, FiniteSets, Bags, TLC

(***************************************************************************)
(* Bounds of the model.                                                    *)
(***************************************************************************)
\* Number of add_model / remove_model calls explored on one graph.
MaxGraphOps == 3

\* Number of mutating StateManager calls explored on one state store.
MaxStateOps == 1

\* Number of materialize calls explored on one CDC target table.
MaxLoads == 3

\* Largest number of rows returned by the SELECT of one materialize call.
MaxBatch == 2

\* Largest chunk_size of a PolarsCDCMaterialization.
MaxChunk == 2

\* Largest max_retries of a ConnectionPool.
MaxRetries == 3

\* Largest pool_size of a ConnectionPool.
MaxPoolSize == 2

\* Number of mutating StateManager calls made by the threads of one process.
MaxSaveCalls == 2

\* Largest max_parallelism of a ParallelExecutor.
MaxParallelism == 2

\* Largest number of characters of a SQL text given to _substitute_variables.
MaxSqlLen == 3

\* the number of Materializer.materialize calls on the cdc model
MaxMerges == 2

\* the number of queries passed to execute_transaction
MaxTxLen == 3

\* the number of chunks that one CDC materialization streams
MaxStreamChunks == 2

\* the number of calls on the StateManager and on the record it returned
MaxGetOps == 3

\* the number of connections that _create_connection opens
MaxConns == 4

\* the number of rows of a staging table
MaxRows == 3

\* the number of materialize calls on one incremental model
MaxMaterializations == 3

\* Model names used as graph nodes.
Names == {"a", "b", "c"}

\* Names of the models of the project that is planned.
PlanNames == {"a", "b"}

VARIABLES
    nodes,      \* DependencyGraph.nodes: insertion-ordered dict of DependencyNode
    ret,        \* value returned (or exception raised) by the last graph call
    graphOps,   \* number of add_model / remove_model calls made so far
    models,     \* StateManager.models: name -> ModelState
    parsed,     \* the current models handed to the planner (current_models)
    plan,       \* the ExecutionPlan returned by the last generate_plan call
    changed,    \* the last has_changed call: its arguments and its result
    stateOps,   \* number of mutating StateManager calls made so far
    target,     \* the rows of the CDC target table (a bag)
    tableExists,    \* the CDC target table exists in the warehouse
    chunkSize,  \* PolarsCDCMaterialization.chunk_size
    clock,      \* warehouse time: the number of materialize calls made so far
    lastBatch,  \* the rows that the SELECT of the last materialize call returned
    prevTarget, \* the target table before the last materialize call
    iuuStep,    \* how many loads of the sequence [I], [U], [U] on key 1 were
                \* made, 0 when the loads made so far are not a start of it
    runPc,      \* run_all: "idle", "running", "done" or "aborted"
    failFast,   \* ModelExecutor.fail_fast
    executionOrder, \* run_all: the levels returned by topological_sort
    levelIdx,   \* run_all: index of the level that is being executed
    posInLevel, \* run_all: index in the level of the next model to execute
    results,    \* run_all: the results of execute_model, in order
    qPc,        \* execute_query: "idle", "attempting", "returned" or "raised"
    maxRetries, \* ConnectionPool.max_retries
    outcomes,   \* execute_query: what the warehouse did on each attempt so far
    delays,     \* execute_query: the time.sleep delays taken so far
    qResult,    \* execute_query: what the call returned or raised
    poolSize,   \* ConnectionPool.pool_size
    lazyInit,   \* ConnectionPool.lazy_init
    initialized,    \* ConnectionPool._initialized
    poolLen,    \* len(ConnectionPool._pool): the idle connections
    opened,     \* the connections that are open (created and not closed)
    tpc,        \* get_connection: the position of each calling thread
    files,      \* the state directory: the state file and its .tmp file
    saveLock,   \* StateManager._lock: the thread that holds it, or "free"
    spc,        \* the position of each thread in its StateManager call
    slocal,     \* per thread: the call it makes and the store it read
    expected,   \* the store after the calls made so far, one after the other
    saveCalls,  \* number of StateManager calls started so far
    alive,      \* the process is running (it has not crashed)
    pPc,        \* execute_models_async: "idle", "gather", "done" or "raised"
    maxParallelism, \* ParallelExecutor.max_parallelism
    pOrder,     \* execute_models_async: execution_order
    pLevel,     \* execute_models_async: index of the current level
    pBatchStart,    \* execute_models_async: i, the offset of the current batch
    task,       \* per model: "none", "scheduled", "running", "succeeded", "failed"
    pResults,   \* execute_models_async: results, "none" for a missing key
    subst,      \* _substitute_variables: the arguments and the SQL returned
    mzType,     \* ModelConfig.materialized of the model that is materialized
    mzTarget,   \* the rows of the model's table in the warehouse (a set)
    mzExists,   \* the model's table exists in the warehouse
    mzClock,    \* warehouse time: the number of Materializer.materialize calls
    mzPrev,     \* the rows of the model's table before the last call
    mzSource,   \* the rows that the SELECT of the last call returned
    mzResult,   \* status returned by the last call, or "MaterializationError"
    strategyCache,  \* MaterializationStrategyFactory._strategy_cache
    txPc,       \* execute_transaction: the position of the call
    txQueries,  \* execute_transaction: len(queries)
    txHasVars,  \* execute_transaction: all_variables is not empty
    txIssued,   \* the statements given to cursor.execute, each with its outcome
    txResult,   \* execute_transaction: "none", "returned" or "raised"
    clPc,       \* PolarsCDCMaterialization.materialize: the position of the call
    clChunks,   \* the chunks that the stream still has to yield
    clSteps,    \* the statements that the current chunk still has to make
    clSeq,      \* the number of _insert_records calls made so far
    clCreated,  \* the temporary tables whose CREATE succeeded
    clDropIssued,   \* the temporary tables for which a DROP was issued
    clPending,  \* the exception that is propagating, or "none"
    clFailures, \* the statements that raised, in order
    clResult,   \* what materialize returned or raised
    gHeap,      \* the ModelState objects of the process, by object number
    gStore,     \* StateManager.models: name -> object number (0: no entry)
    gNext,      \* the number of the next ModelState object
    gHandle,    \* the object that the last get_model_state returned (0: None)
    gSnapshot,  \* the fields of that object when it was returned
    gExpected,  \* the store as the calls on the StateManager alone make it
    gCallerChanged, \* the caller has changed the record it holds
    gOps,       \* the number of calls made so far
    hPoolSize,  \* ConnectionPool.pool_size
    hPool,      \* ConnectionPool._pool: the idle connections, by number
    hInUse,     \* the connection that get_connection has yielded (0: none)
    hFailed,    \* the connections that failed a health check
    hClosed,    \* the connections that were closed
    hNextConn,  \* the number of the next connection
    hLast,      \* how the last get_connection came to its connection
    iStrategy,  \* ModelConfig.incremental_strategy of the model
    iModel,     \* the model name given to ModelExecutor, as its dotted parts
    iConfig,    \* what the connection config of ModelExecutor provides
    iHasState,  \* whether the strategy has a state manager
    iCatalog,   \* the tables of the database, as [schema, table]
    iLastTime,  \* incremental_state['last_processed_time'] of the model
    iClock,     \* datetime.now()
    iOkRun,     \* the number of successful materializations in a row
    iLast,       \* what the last materialize call saw, issued and returned
    sRows,     \* the rows of the staging table
    sChunkSize, \* PolarsCDCMaterialization.chunk_size
    sOffset,   \* offset of the generator
    sPc,       \* where the generator is: "query" or "done"
    sChunks,   \* the chunks that the generator has yielded
    sQueries,   \* the number of SELECT ... LIMIT ... OFFSET issued
    lModels,   \* LineageTracker.models: the ModelLineage of each model
    lResult,    \* what the last get_column_impact call returned
    added,      \* the names that were passed as model_name to add_model
    cPoolSize, \* ConnectionPool.pool_size
    cLazyInit, \* ConnectionPool.lazy_init
    cInitialized, \* ConnectionPool._initialized
    cPool,     \* ConnectionPool._pool: the idle connections, by number
    cNextConn, \* the number of the next connection
    cPc,       \* where each thread is in its call
    cConn      \* the connection that each thread holds (0: none)

graphVars == <<nodes, ret, graphOps>>
planVars == <<models, parsed, plan, changed, stateOps>>
cdcVars == <<target, tableExists, chunkSize, clock, lastBatch, prevTarget, iuuStep>>
runVars == <<runPc, failFast, executionOrder, levelIdx, posInLevel, results>>
queryVars == <<qPc, maxRetries, outcomes, delays, qResult>>
poolVars == <<poolSize, lazyInit, initialized, poolLen, opened, tpc>>
saveVars == <<files, saveLock, spc, slocal, expected, saveCalls, alive>>
parVars == <<pPc, maxParallelism, pOrder, pLevel, pBatchStart, task, pResults>>
substVars == <<subst>>
mzVars == <<mzType, mzTarget, mzExists, mzClock, mzPrev, mzSource, mzResult, strategyCache>>
txVars == <<txPc, txQueries, txHasVars, txIssued, txResult>>
clVars == <<clPc, clChunks, clSteps, clSeq, clCreated, clDropIssued, clPending, clFailures,
           clResult>>
getVars == <<gHeap, gStore, gNext, gHandle, gSnapshot, gExpected, gCallerChanged, gOps>>
healthVars == <<hPoolSize, hPool, hInUse, hFailed, hClosed, hNextConn, hLast>>
incrVars == <<iStrategy, iModel, iConfig, iHasState, iCatalog, iLastTime, iClock, iOkRun, iLast>>
streamVars == <<sRows, sChunkSize, sOffset, sPc, sChunks, sQueries>>
lineageVars == <<lModels, lResult>>
schedVars == <<added>>
idleVars == <<cPoolSize, cLazyInit, cInitialized, cPool, cNextConn, cPc, cConn>>
lateVars == <<incrVars, streamVars, lineageVars, schedVars, idleVars>>
moreVars == <<mzVars, txVars, clVars, getVars, healthVars, lateVars>>
restVars == <<queryVars, poolVars, saveVars, parVars, substVars, moreVars>>

vars == <<nodes, ret, graphOps, models, parsed, plan, changed, stateOps,
          target, tableExists, chunkSize, clock, lastBatch, prevTarget, iuuStep,
          runPc, failFast, executionOrder, levelIdx, posInLevel, results,
          qPc, maxRetries, outcomes, delays, qResult,
          poolSize, lazyInit, initialized, poolLen, opened, tpc,
          files, saveLock, spc, slocal, expected, saveCalls, alive,
          pPc, maxParallelism, pOrder, pLevel, pBatchStart, task, pResults,
          subst,
          mzType, mzTarget, mzExists, mzClock, mzPrev, mzSource, mzResult, strategyCache,
          txPc, txQueries, txHasVars, txIssued, txResult,
          clPc, clChunks, clSteps, clSeq, clCreated, clDropIssued, clPending, clFailures, clResult,
          gHeap, gStore, gNext, gHandle, gSnapshot, gExpected, gCallerChanged, gOps,
          hPoolSize, hPool, hInUse, hFailed, hClosed, hNextConn, hLast,
          iStrategy, iModel, iConfig, iHasState, iCatalog, iLastTime, iClock, iOkRun, iLast,
          sRows, sChunkSize, sOffset, sPc, sChunks, sQueries,
          lModels, lResult,
          added,
          cPoolSize, cLazyInit, cInitialized, cPool, cNextConn, cPc, cConn>>

(***************************************************************************)
(* Helpers on sequences and sets.                                          *)
(***************************************************************************)
Range(s) == {s[i] : i \in 1..Len(s)}

\* Iteration orders of a Python set of str: the order depends on the string
\* hashes (randomised per process), so every order is possible.  One
\* permutation of all names stands for the hash order of a process.
PermsOf(S) == {p \in [1..Cardinality(S) -> S] : \A n \in S : \E i \in DOMAIN p : p[i] = n}

Perms == PermsOf(Names)

\* The elements of set S in the iteration order perm.
SetToSeq(S, perm) == LET InS(x) == x \in S IN SelectSeq(perm, InS)

RECURSIVE SumLen(_)
SumLen(ss) == IF ss = <<>> THEN 0 ELSE Len(Head(ss)) + SumLen(Tail(ss))

RECURSIVE Flatten(_)
Flatten(ss) == IF ss = <<>> THEN <<>> ELSE Head(ss) \o Flatten(Tail(ss))

(***************************************************************************)
(* DependencyGraph.                                                        *)
(* A graph is a record: keys is the insertion order of the dict            *)
(* self.nodes, dependencies[n] and dependents[n] are the two sets of node  *)
(* n (both {} for a name that is not a key).  The field level of a node is *)
(* written by topological_sort and read only by export_graphviz; it is not *)
(* modelled.                                                               *)
(***************************************************************************)
EmptyGraph ==
    [keys |-> <<>>,
     dependencies |-> [n \in Names |-> {}],
     dependents |-> [n \in Names |-> {}]]

InNodes(g, n) == n \in Range(g.keys)

\* add_model(model_name, dependencies): the node is created if absent, its
\* dependencies are REPLACED, and model_name is added to the dependents of
\* every dependency (creating the dependency's node if absent).  Nothing is
\* removed from the dependents of a former dependency.
AddModel(g, name, deps, perm) ==
    LET keys1 == IF InNodes(g, name) THEN g.keys ELSE Append(g.keys, name)
        IsNew(d) == d \in deps /\ d \notin Range(keys1)
        keys2 == keys1 \o SelectSeq(perm, IsNew)
    IN  [keys |-> keys2,
         dependencies |-> [g.dependencies EXCEPT ![name] = deps],
         dependents |-> [d \in Names |->
                            IF d \in deps THEN g.dependents[d] \cup {name}
                            ELSE g.dependents[d]]]

\* remove_model(model_name)
RemoveModel(g, name) ==
    IF ~InNodes(g, name) THEN g
    ELSE
        LET dependents1 == [d \in Names |->
                IF d \in g.dependencies[name] /\ InNodes(g, d)
                THEN g.dependents[d] \ {name} ELSE g.dependents[d]]
            dependencies1 == [d \in Names |->
                IF d \in dependents1[name] /\ InNodes(g, d)
                THEN g.dependencies[d] \ {name} ELSE g.dependencies[d]]
            NotName(k) == k # name
        IN  [keys |-> SelectSeq(g.keys, NotName),
             dependencies |-> [dependencies1 EXCEPT ![name] = {}],
             dependents |-> [dependents1 EXCEPT ![name] = {}]]

\* get_dependencies / get_dependents
GetDependencies(g, n) == IF InNodes(g, n) THEN g.dependencies[n] ELSE {}
GetDependents(g, n) == IF InNodes(g, n) THEN g.dependents[n] ELSE {}

(***************************************************************************)
(* detect_circular_dependencies: DFS over dependencies with a recursion    *)
(* stack.  The DFS state is [visited, recStack, path, found].              *)
(***************************************************************************)
\* A DFS that takes every already visited dependency for a back edge (no
\* recursion stack): the variant of IsBackEdge that a cycle detection without
\* a recursion stack would use.
IsBackEdgeAnyVisited(st, dep) == dep \in st.visited

\* the test `elif dep in rec_stack` for an already visited dependency
IsBackEdge(st, dep) == dep \in st.recStack

RECURSIVE Dfs(_, _, _, _)
RECURSIVE DfsDeps(_, _, _, _)
Dfs(g, perm, st, node) ==
    LET st1 == [visited |-> st.visited \cup {node},
                recStack |-> st.recStack \cup {node},
                path |-> Append(st.path, node),
                found |-> FALSE]
        deps == IF InNodes(g, node) THEN SetToSeq(g.dependencies[node], perm) ELSE <<>>
        st2 == DfsDeps(g, perm, st1, deps)
    IN  IF st2.found THEN st2
        ELSE [st2 EXCEPT !.path = SubSeq(st2.path, 1, Len(st2.path) - 1),
                         !.recStack = st2.recStack \ {node}]

DfsDeps(g, perm, st, deps) ==
    IF deps = <<>> THEN st
    ELSE LET dep == Head(deps) IN
         IF dep \notin st.visited
         THEN LET r == Dfs(g, perm, st, dep) IN
              IF r.found THEN r ELSE DfsDeps(g, perm, r, Tail(deps))
         ELSE IF IsBackEdge(st, dep)
              THEN [st EXCEPT !.found = TRUE]   \* cycle_start is computed and not used
              ELSE DfsDeps(g, perm, st, Tail(deps))

RECURSIVE DfsRoots(_, _, _, _)
DfsRoots(g, perm, st, roots) ==
    IF roots = <<>> THEN st
    ELSE IF Head(roots) \in st.visited THEN DfsRoots(g, perm, st, Tail(roots))
    ELSE LET r == Dfs(g, perm, st, Head(roots)) IN
         IF r.found THEN r ELSE DfsRoots(g, perm, r, Tail(roots))

\* Returns [found, path]: found = FALSE stands for None, otherwise path is the
\* list that is returned (the whole DFS path at the moment the back edge is met).
DetectCircularDependencies(g, perm) ==
    LET st == DfsRoots(g, perm,
                       [visited |-> {}, recStack |-> {}, path |-> <<>>, found |-> FALSE],
                       g.keys)
    IN  [found |-> st.found, path |-> IF st.found THEN st.path ELSE <<>>]

(***************************************************************************)
(* topological_sort: the cycle check, then Kahn's algorithm by levels.     *)
(* The loop state is [inDeg, queue, err]; err is the KeyError raised by    *)
(* in_degree[dependent] for a dependent that is not a key of self.nodes.   *)
(***************************************************************************)
RECURSIVE KahnDependents(_, _)
KahnDependents(st, deps) ==
    IF deps = <<>> \/ st.err THEN st
    ELSE LET d == Head(deps) IN
         IF d \notin DOMAIN st.inDeg THEN [st EXCEPT !.err = TRUE]
         ELSE LET deg == st.inDeg[d] - 1
                  st1 == [st EXCEPT !.inDeg[d] = deg,
                                    !.queue = IF deg = 0 THEN Append(st.queue, d) ELSE st.queue]
              IN  KahnDependents(st1, Tail(deps))

\* the for loop over one level: pops `remaining` nodes from the queue
RECURSIVE KahnLevel(_, _, _, _, _)
KahnLevel(g, perm, st, remaining, level) ==
    IF remaining = 0 \/ st.err THEN [st |-> st, level |-> level]
    ELSE LET node == Head(st.queue)
             st1 == [st EXCEPT !.queue = Tail(st.queue)]
             deps == IF InNodes(g, node) THEN SetToSeq(g.dependents[node], perm) ELSE <<>>
         IN  KahnLevel(g, perm, KahnDependents(st1, deps), remaining - 1, Append(level, node))

\* the while loop
RECURSIVE KahnLoop(_, _, _, _)
KahnLoop(g, perm, st, result) ==
    IF st.queue = <<>> \/ st.err THEN [st |-> st, result |-> result]
    ELSE LET r == KahnLevel(g, perm, st, Len(st.queue), <<>>) IN
         KahnLoop(g, perm, r.st,
                  IF r.level # <<>> THEN Append(result, r.level) ELSE result)

\* Returns [status, levels]: status "ok" with the levels, or the exception raised.
TopologicalSort(g, perm) ==
    LET cycle == DetectCircularDependencies(g, perm) IN
    IF cycle.found /\ cycle.path # <<>>
    THEN [status |-> "CircularDependencyError", levels |-> <<>>]
    ELSE
        LET inDeg == [n \in Range(g.keys) |-> Cardinality(g.dependencies[n])]
            IsZero(n) == inDeg[n] = 0
            r == KahnLoop(g, perm,
                          [inDeg |-> inDeg, queue |-> SelectSeq(g.keys, IsZero), err |-> FALSE],
                          <<>>)
        IN  IF r.st.err THEN [status |-> "KeyError", levels |-> <<>>]
            ELSE IF SumLen(r.result) # Len(g.keys)
                 THEN [status |-> "CircularDependencyError", levels |-> <<>>]
                 ELSE [status |-> "ok", levels |-> r.result]

(***************************************************************************)
(* get_all_dependencies and get_execution_order.                           *)
(***************************************************************************)
\* traverse(name) of get_all_dependencies; acc is [visited, all_deps]
RECURSIVE Traverse(_, _, _)
RECURSIVE TraverseDeps(_, _, _)
Traverse(g, acc, name) ==
    IF name \in acc.visited THEN acc
    ELSE LET acc1 == [acc EXCEPT !.visited = acc.visited \cup {name}] IN
         IF InNodes(g, name) THEN TraverseDeps(g, acc1, g.dependencies[name]) ELSE acc1

TraverseDeps(g, acc, deps) ==
    IF deps = {} THEN acc
    ELSE LET dep == CHOOSE d \in deps : TRUE
             acc1 == Traverse(g, [acc EXCEPT !.all_deps = acc.all_deps \cup {dep}], dep)
         IN  TraverseDeps(g, acc1, deps \ {dep})

GetAllDependencies(g, name) ==
    IF ~InNodes(g, name) THEN {}
    ELSE Traverse(g, [visited |-> {}, all_deps |-> {}], name).all_deps

\* traverse(name) of get_all_dependents; acc is [visited, all_dependents]
RECURSIVE TraverseDependents(_, _, _)
RECURSIVE TraverseEachDependent(_, _, _)
TraverseDependents(g, acc, name) ==
    IF name \in acc.visited THEN acc
    ELSE LET acc1 == [acc EXCEPT !.visited = acc.visited \cup {name}] IN
         IF InNodes(g, name) THEN TraverseEachDependent(g, acc1, g.dependents[name]) ELSE acc1

TraverseEachDependent(g, acc, dependents) ==
    IF dependents = {} THEN acc
    ELSE LET dependent == CHOOSE d \in dependents : TRUE
             acc1 == TraverseDependents(
                         g, [acc EXCEPT !.all_dependents = acc.all_dependents \cup {dependent}],
                         dependent)
         IN  TraverseEachDependent(g, acc1, dependents \ {dependent})

\* An impact that stops at the direct dependents.
GetAllDependentsDirectOnly(g, name) == IF ~InNodes(g, name) THEN {} ELSE g.dependents[name]

GetAllDependents(g, name) ==
    IF ~InNodes(g, name) THEN {}
    ELSE TraverseDependents(g, [visited |-> {}, all_dependents |-> {}], name).all_dependents

\* get_changed_models_impact
GetChangedModelsImpact(g, changed_models) ==
    changed_models \cup UNION {GetAllDependents(g, model) : model \in changed_models}

\* the subgraph of get_execution_order: add_model for every required model
RECURSIVE BuildSubgraph(_, _, _, _, _)
BuildSubgraph(g, sub, todo, required, perm) ==
    IF todo = <<>> THEN sub
    ELSE LET model == Head(todo)
             sub1 == IF InNodes(g, model)
                     THEN AddModel(sub, model, g.dependencies[model] \cap required, perm)
                     ELSE sub
         IN  BuildSubgraph(g, sub1, Tail(todo), required, perm)

\* get_execution_order(models) for a list of models (not None): the models
\* and all their transitive dependencies, sorted.
GetExecutionOrder(g, modelList, perm) ==
    LET required == Range(modelList) \cup
                    UNION {GetAllDependencies(g, m) : m \in Range(modelList)}
        subgraph == BuildSubgraph(g, EmptyGraph, SetToSeq(required, perm), required, perm)
    IN  TopologicalSort(subgraph, perm)

\* build_dependency_graph(parsed_models): one add_model per parsed model, in
\* the order of the dict; info[n].dependencies is the dependency list of n.
RECURSIVE BuildDependencyGraph(_, _, _, _)
BuildDependencyGraph(g, order, info, perm) ==
    IF order = <<>> THEN g
    ELSE BuildDependencyGraph(AddModel(g, Head(order), Range(info[Head(order)].dependencies), perm),
                              Tail(order), info, perm)

(***************************************************************************)
(* StateManager and ModelState (state.py).                                 *)
(* A ModelState is a record; exists = FALSE stands for "no entry in        *)
(* self.models".  dependencies is the stored list.  incremental_state is   *)
(* the value stored under one key (None: the empty dict).  The timestamps  *)
(* last_executed / last_success / last_failure are not modelled.           *)
(***************************************************************************)
None == "None"

FileHashes == {"h1", "h2"}
ConfigHashes == {None, "c1"}

\* Dependency lists of model n: lists without repetition over the other names.
DepLists(n) == {<<>>} \cup {<<m>> : m \in PlanNames \ {n}}

NoState ==
    [exists |-> FALSE, file_hash |-> "", config_hash |-> None, dependencies |-> <<>>,
     execution_count |-> 0, success_count |-> 0, failure_count |-> 0,
     incremental_state |-> None]

\* ModelState(model_name, file_hash, dependencies, config_hash)
NewModelState(file_hash, dependencies, config_hash) ==
    [exists |-> TRUE, file_hash |-> file_hash, config_hash |-> config_hash,
     dependencies |-> dependencies,
     execution_count |-> 0, success_count |-> 0, failure_count |-> 0,
     incremental_state |-> None]

\* A mark_execution that counts the failures in execution_count only.
MarkExecutionOnSuccessOnly(state, success) ==
    [state EXCEPT !.execution_count = state.execution_count + 1,
                  !.success_count = IF success THEN state.success_count + 1 ELSE state.success_count]

\* ModelState.mark_execution(success)
MarkExecutionOn(state, success) ==
    [state EXCEPT !.execution_count = state.execution_count + 1,
                  !.success_count = IF success THEN state.success_count + 1 ELSE state.success_count,
                  !.failure_count = IF success THEN state.failure_count ELSE state.failure_count + 1]

\* StateManager.get_model_state(name): the ModelState, or None (exists = FALSE)
GetModelState(store, name) == store[name]

\* StateManager.update_model_state
UpdateModelState(store, name, file_hash, dependencies, config_hash) ==
    IF store[name].exists
    THEN [store EXCEPT ![name].file_hash = file_hash,
                       ![name].dependencies = dependencies,
                       ![name].config_hash = config_hash]
    ELSE [store EXCEPT ![name] = NewModelState(file_hash, dependencies, config_hash)]

\* StateManager.mark_execution
MarkExecution(store, name, success) ==
    IF store[name].exists
    THEN [store EXCEPT ![name] = MarkExecutionOn(store[name], success)]
    ELSE [store EXCEPT ![name] = MarkExecutionOn(NewModelState("", <<>>, None), success)]

\* StateManager.update_incremental_state for the key last_run
UpdateIncrementalState(store, name, value) ==
    IF store[name].exists
    THEN [store EXCEPT ![name].incremental_state = value]
    ELSE [store EXCEPT ![name] = [NewModelState("", <<>>, None) EXCEPT !.incremental_state = value]]

\* StateManager.clear_state(model_name) for one model
ClearState(store, name) == [store EXCEPT ![name] = NoState]

\* StateManager.clear_state() for all models
ClearAllState(store) == [n \in DOMAIN store |-> NoState]

\* Python truth value of an Optional[str]
Truthy(x) == x # None /\ x # ""

\* StateManager.has_changed(model_name, file_hash, config_hash)
HasChanged(store, name, file_hash, config_hash) ==
    LET state == GetModelState(store, name) IN
    IF ~state.exists THEN TRUE
    ELSE IF state.file_hash # file_hash THEN TRUE
    ELSE IF Truthy(config_hash) /\ state.config_hash # config_hash THEN TRUE
    ELSE FALSE

(***************************************************************************)
(* PlanGenerator (plan.py).                                                *)
(* parsed[n] is the model_info of n: present = FALSE stands for "n is not  *)
(* a key of current_models".                                               *)
(***************************************************************************)
NoModel == [present |-> FALSE, file_hash |-> "", config_hash |-> None, dependencies |-> <<>>]

\* Variant of DetermineChangeType that compares the set of current
\* dependencies with the stored list itself (a set never equals a list).
DetermineChangeTypeNoSetConversion(store, name, info) ==
    LET state == GetModelState(store, name) IN
    IF ~state.exists THEN <<"create", "New model">>
    ELSE IF state.file_hash # info.file_hash THEN <<"update", "Model file changed">>
    ELSE IF Truthy(info.config_hash) /\ state.config_hash # info.config_hash
         THEN <<"update", "Model configuration changed">>
    ELSE <<"update", "Dependencies changed">>

\* _determine_change_type(model_name, model_info): <<change type, reason>>
DetermineChangeType(store, name, info) ==
    LET state == GetModelState(store, name) IN
    IF ~state.exists THEN <<"create", "New model">>
    ELSE IF state.file_hash # info.file_hash THEN <<"update", "Model file changed">>
    ELSE IF Truthy(info.config_hash) /\ state.config_hash # info.config_hash
         THEN <<"update", "Model configuration changed">>
    ELSE IF Range(info.dependencies) # Range(state.dependencies)
         THEN <<"update", "Dependencies changed">>
    ELSE <<"no_change", "No changes detected">>

\* the loop "for model_name in models_set" of generate_plan
RECURSIVE PlanChanges(_, _, _, _, _)
PlanChanges(g, store, info, todo, full_refresh) ==
    IF todo = <<>> THEN <<>>
    ELSE LET name == Head(todo)
             rest == PlanChanges(g, store, info, Tail(todo), full_refresh)
         IN  IF name \notin DOMAIN info \/ ~info[name].present THEN rest
             ELSE LET ct == IF full_refresh THEN <<"update", "Full refresh requested">>
                            ELSE DetermineChangeType(store, name, info[name])
                  IN  <<[model_name |-> name, change_type |-> ct[1], reason |-> ct[2],
                         dependencies_affected |-> GetDependents(g, name)]>> \o rest

NoPlan ==
    [called |-> FALSE, models_to_run |-> <<>>, full_refresh |-> FALSE,
     status |-> "none", changes |-> <<>>, execution_order |-> <<>>, total_models |-> 0]

\* generate_plan(current_models, models_to_run, full_refresh); models_to_run
\* is a list (<<>> stands for None and for the empty list, which are treated
\* alike).  status is "ok" or the exception that get_execution_order raised.
GeneratePlan(g, store, info, models_to_run, full_refresh, perm) ==
    LET models_set ==
            IF models_to_run # <<>>
            THEN Range(models_to_run) \cup
                 UNION {GetAllDependencies(g, m) : m \in Range(models_to_run)}
            ELSE {n \in DOMAIN info : info[n].present}
        changes == PlanChanges(g, store, info, SetToSeq(models_set, perm), full_refresh)
        IsExec(c) == c.change_type \in {"create", "update"}
        toExec == SelectSeq(changes, IsExec)
        models_to_execute == [i \in 1..Len(toExec) |-> toExec[i].model_name]
        order == IF models_to_execute # <<>>
                 THEN GetExecutionOrder(g, models_to_execute, perm)
                 ELSE [status |-> "ok", levels |-> <<>>]
    IN  [status |-> order.status, changes |-> changes,
         execution_order |-> order.levels, total_models |-> Cardinality(models_set)]

NoChanged == [called |-> FALSE, name |-> "", file_hash |-> "", config_hash |-> None, result |-> FALSE]

\* The state store, the planner and their results when they are not in use.
PlanIdle ==
    /\ models = [n \in PlanNames |-> NoState]
    /\ parsed = [n \in PlanNames |-> NoModel]
    /\ plan = NoPlan
    /\ changed = NoChanged
    /\ stateOps = 0

(***************************************************************************)
(* PolarsCDCMaterialization (cdc_polars.py).                               *)
(* An input row is [key, op]: the unique_key value and the change type.    *)
(* A target row is [key, cdc_timestamp, obsolete_date]; the other columns  *)
(* of a row are not modelled.  The target table is a bag of rows.  All the *)
(* statements of one materialize call see the same CURRENT_TIMESTAMP.      *)
(***************************************************************************)
\* obsolete_date IS NULL
NULL == 0

CdcKeys == {1}
CdcOps == {"I", "U", "D", "E"}

\* The results of the SELECT of a model: lists of at most MaxBatch rows.
Batches == UNION {[1..n -> [key : CdcKeys, op : CdcOps]] : n \in 0..MaxBatch}

\* LIMIT chunk_size OFFSET offset on a list of rows
LimitOffset(rows, limit, offset) ==
    SubSeq(rows, offset + 1, IF offset + limit < Len(rows) THEN offset + limit ELSE Len(rows))

\* _stream_query_chunks / _stream_query_chunks_from_table: the chunks that
\* the generator yields, from the given offset on.
RECURSIVE StreamQueryChunks(_, _, _)
StreamQueryChunks(rows, size, offset) ==
    LET df == LimitOffset(rows, size, offset) IN
    IF Len(df) = 0 THEN <<>>
    ELSE IF Len(df) < size THEN <<df>>
    ELSE <<df>> \o StreamQueryChunks(rows, size, offset + size)

\* The keys of a list of rows: select(unique_key).unique()
KeysOf(rows) == {rows[i].key : i \in 1..Len(rows)}

\* filter(change_type == op)
FilterOp(rows, ops) == LET Is(r) == r.op \in ops IN SelectSeq(rows, Is)

\* _insert_records: every record of the frame is inserted into the target
\* with obsolete_date NULL.
RECURSIVE InsertRecords(_, _, _)
InsertRecords(t, rows, now) ==
    IF rows = <<>> THEN t
    ELSE InsertRecords(t (+) SetToBag({[key |-> Head(rows).key, cdc_timestamp |-> now,
                                        obsolete_date |-> NULL]}),
                       Tail(rows), now)

\* An UPDATE without the condition obsolete_date IS NULL: the retired rows
\* of the keys get the new obsolete_date as well.
RetireKeysAlsoRetired(t, keys, now) ==
    LET hit == {r \in BagToSet(t) : r.key \in keys}
        rest == [r \in BagToSet(t) \ hit |-> t[r]]
        RECURSIVE Moved(_)
        Moved(rs) ==
            IF rs = {} THEN EmptyBag
            ELSE LET r == CHOOSE x \in rs : TRUE IN
                 [m \in {[r EXCEPT !.obsolete_date = now]} |-> t[r]] (+) Moved(rs \ {r})
    IN  rest (+) Moved(hit)

\* UPDATE target SET obsolete_date = CURRENT_TIMESTAMP()
\* WHERE unique_key IN (keys) AND obsolete_date IS NULL
\* (issued in batches of 1000 keys, which together cover keys).
RetireKeys(t, keys, now) ==
    LET hit == {r \in BagToSet(t) : r.key \in keys /\ r.obsolete_date = NULL}
        rest == [r \in BagToSet(t) \ hit |-> t[r]]
        moved == [m \in {[r EXCEPT !.obsolete_date = now] : r \in hit} |->
                     t[[m EXCEPT !.obsolete_date = NULL]]]
    IN  rest (+) moved

\* _process_cdc_chunk_with_retirement: the inserts, then the updates (retire
\* and insert), then the deletes and the expired (retire).
ProcessCdcChunkWithRetirement(t, df, now) ==
    LET inserts == FilterOp(df, {"I"})
        updates == FilterOp(df, {"U"})
        to_retire == FilterOp(df, {"D"}) \o FilterOp(df, {"E"})
        t1 == IF Len(inserts) > 0 THEN InsertRecords(t, inserts, now) ELSE t
        t2 == IF Len(updates) > 0
              THEN InsertRecords(RetireKeys(t1, KeysOf(updates), now), updates, now)
              ELSE t1
        t3 == IF Len(to_retire) > 0 THEN RetireKeys(t2, KeysOf(to_retire), now) ELSE t2
    IN  t3

\* _process_initial_chunk_polars: sort(unique_key).unique(keep='last'), one
\* row per key of the chunk, every row with change type 'I'.
RECURSIVE SortedByKey(_, _)
SortedByKey(rows, keys) ==
    IF keys = {} THEN <<>>
    ELSE LET k == CHOOSE x \in keys : \A y \in keys : x <= y
         IN  <<[key |-> k, op |-> "I"]>> \o SortedByKey(rows, keys \ {k})

ProcessInitialChunkPolars(df) == SortedByKey(df, KeysOf(df))

\* the loop over the chunks of _initial_load
RECURSIVE InitialLoadChunks(_, _, _)
InitialLoadChunks(t, chunks, now) ==
    IF chunks = <<>> THEN t
    ELSE InitialLoadChunks(InsertRecords(t, ProcessInitialChunkPolars(Head(chunks)), now),
                           Tail(chunks), now)

\* _initial_load: CREATE TABLE ... LIMIT 0, then the chunks of the SELECT
InitialLoad(batch, size, now) ==
    InitialLoadChunks(EmptyBag, StreamQueryChunks(batch, size, 0), now)

\* the loop over the chunks of _process_cdc_with_retirement
RECURSIVE CdcChunks(_, _, _)
CdcChunks(t, chunks, now) ==
    IF chunks = <<>> THEN t
    ELSE CdcChunks(ProcessCdcChunkWithRetirement(t, Head(chunks), now), Tail(chunks), now)

\* _process_cdc_with_retirement: the staging table holds the rows of the
\* SELECT; nothing is done when it is empty.
ProcessCdcWithRetirement(t, batch, size, now) ==
    IF Len(batch) = 0 THEN t
    ELSE CdcChunks(t, StreamQueryChunks(batch, size, 0), now)

CdcIdle ==
    /\ target = EmptyBag
    /\ tableExists = FALSE
    /\ chunkSize = 1
    /\ clock = 0
    /\ lastBatch = <<>>
    /\ prevTarget = EmptyBag
    /\ iuuStep = 0

(***************************************************************************)
(* run_all (cli.py) and ModelExecutor.execute_model (executor.py).         *)
(***************************************************************************)
RunIdle ==
    /\ runPc = "idle"
    /\ failFast = FALSE
    /\ executionOrder = <<>>
    /\ levelIdx = 0
    /\ posInLevel = 0
    /\ results = <<>>

(***************************************************************************)
(* SnowflakeExecutor.execute_query (connection.py): the retry loop.        *)
(* An outcome is what one attempt met: "ok" (the query ran), a             *)
(* SnowflakeError with its errno, or another exception (for instance the   *)
(* ConnectionError of a failed _create_connection).                        *)
(***************************************************************************)
RetryableCodes == {253001, 253003, 253008, 390114}

\* getattr(e, 'errno', None) of an error without errno
NoErrno == 0

\* errno values of a SnowflakeError: the retryable ones, a compilation
\* error, and an error without errno.
ErrorCodes == RetryableCodes \cup {1003, NoErrno}

\* ConnectionPool.retry_delay
RetryDelay == 1

Outcomes ==
    {[kind |-> "ok", errno |-> NoErrno], [kind |-> "Exception", errno |-> NoErrno]}
    \cup {[kind |-> "SnowflakeError", errno |-> c] : c \in ErrorCodes}

\* A variant of _is_retryable_error with a shorter list of codes.
IsRetryableErrorFirstCodeOnly(error_code) ==
    IF error_code # NoErrno THEN error_code \in {253001} ELSE FALSE

\* A variant of _is_retryable_error that retries every SnowflakeError.
IsRetryableErrorAlways(error_code) == TRUE

\* _is_retryable_error
IsRetryableError(error_code) ==
    IF error_code # NoErrno THEN error_code \in RetryableCodes ELSE FALSE

\* self.pool.retry_delay * (2 ** attempt), attempt counted from 0
Backoff(attempt) == RetryDelay * (2 ^ attempt)

NoQueryResult == [kind |-> "none", attempt |-> 0, retry_count |-> 0]

\* the TransientConnectionError raised after the loop
TransientConnectionError(n) ==
    [kind |-> "TransientConnectionError", attempt |-> 0, retry_count |-> n]

QueryIdle ==
    /\ qPc = "idle"
    /\ maxRetries = 1
    /\ outcomes = <<>>
    /\ delays = <<>>
    /\ qResult = NoQueryResult

(***************************************************************************)
(* ConnectionPool.get_connection (connection.py), called by the threads of *)
(* PoolThreads.  Connections are counted, not named.                       *)
(***************************************************************************)
PoolThreads == {"t1", "t2", "t3"}

PoolIdle ==
    /\ poolSize = 1
    /\ lazyInit = TRUE
    /\ initialized = FALSE
    /\ poolLen = 0
    /\ opened = 0
    /\ tpc = [t \in PoolThreads |-> "start"]

(***************************************************************************)
(* StateManager._save_state (state.py) and the files it writes.  A file is *)
(* absent, partially written (complete = FALSE) or complete; data is the   *)
(* store whose JSON the file holds or is being given.                      *)
(***************************************************************************)
SaveThreads == {"t1", "t2"}

EmptyStore == [n \in PlanNames |-> NoState]

AbsentFile == [exists |-> FALSE, complete |-> FALSE, data |-> EmptyStore]

\* open(f, 'w') and the first writes of json.dump
PartialFile(data) == [exists |-> TRUE, complete |-> FALSE, data |-> data]

\* the file once json.dump has returned and the file is closed
CompleteFile(data) == [exists |-> TRUE, complete |-> TRUE, data |-> data]

\* A save that writes the state file in place.
TempFileIsStateFile == "state"

\* temp_file = self.state_file.with_suffix('.tmp')
TempFile == "tmp"

\* temp_file.replace(self.state_file)
Replace(fs) ==
    IF TempFile = "state" THEN fs
    ELSE [fs EXCEPT !["state"] = fs[TempFile], ![TempFile] = AbsentFile]

\* A lock that excludes nobody.
LockFreeAlways == TRUE

\* `with self._lock` can be entered
LockFree == saveLock = "free"

NoCall == [kind |-> "none", name |-> "", arg |-> None]

SaveIdle ==
    /\ files = [f \in {"state", "tmp"} |-> AbsentFile]
    /\ saveLock = "free"
    /\ spc = [t \in SaveThreads |-> "idle"]
    /\ slocal = [t \in SaveThreads |-> [call |-> NoCall, read |-> EmptyStore]]
    /\ expected = EmptyStore
    /\ saveCalls = 0
    /\ alive = TRUE

(***************************************************************************)
(* ParallelExecutor.execute_models_async (dependency.py).                  *)
(***************************************************************************)
\* A batch that takes the rest of the level whatever max_parallelism is.
BatchRestOfLevel(level_models, i, max_parallelism) ==
    SubSeq(level_models, i + 1, Len(level_models))

\* level_models[i:i + self.max_parallelism]
Batch(level_models, i, max_parallelism) ==
    SubSeq(level_models, i + 1,
           IF i + max_parallelism < Len(level_models) THEN i + max_parallelism
           ELSE Len(level_models))

ParIdle ==
    /\ pPc = "idle"
    /\ maxParallelism = 1
    /\ pOrder = <<>>
    /\ pLevel = 0
    /\ pBatchStart = 0
    /\ task = [n \in Names |-> "none"]
    /\ pResults = [n \in Names |-> "none"]

(***************************************************************************)
(* ModelExecutor._substitute_variables (executor.py).  A SQL text and a    *)
(* string value are sequences of characters; a variable name is a sequence *)
(* of characters; variables is the dict as the sequence of its items.  A   *)
(* value is [type, val] with type "str", "int", "bool" or "NoneType".      *)
(***************************************************************************)
\* isinstance(value, types): bool is a subclass of int
IsInstance(value, types) ==
    \/ value.type \in types
    \/ value.type = "bool" /\ "int" \in types

\* str.replace("'", "''")
RECURSIVE EscapeQuotes(_)
EscapeQuotes(chars) ==
    IF chars = <<>> THEN <<>>
    ELSE (IF Head(chars) = "'" THEN <<"'", "'">> ELSE <<Head(chars)>>)
         \o EscapeQuotes(Tail(chars))

\* str(value) of an int or a bool, as one token
Str(value) ==
    IF value.type = "bool" THEN <<IF value.val = "true" THEN "True" ELSE "False">>
    ELSE <<value.val>>

\* A formatting that tests bool before int.
FormatValueBoolFirst(value) ==
    IF IsInstance(value, {"str"}) THEN <<"'">> \o EscapeQuotes(value.val) \o <<"'">>
    ELSE IF value.type = "bool" THEN <<IF value.val = "true" THEN "TRUE" ELSE "FALSE">>
    ELSE IF IsInstance(value, {"int", "float"}) THEN Str(value)
    ELSE <<"NULL">>

\* replace_var: the literal for a value
FormatValue(value) ==
    IF IsInstance(value, {"str"}) THEN <<"'">> \o EscapeQuotes(value.val) \o <<"'">>
    ELSE IF IsInstance(value, {"int", "float"}) THEN Str(value)
    ELSE IF value.type = "NoneType" THEN <<"NULL">>
    ELSE IF IsInstance(value, {"bool"}) THEN <<IF value.val = "true" THEN "TRUE" ELSE "FALSE">>
    ELSE <<"'">> \o EscapeQuotes(value.val) \o <<"'">>

\* the text starts with "$" and the name
StartsWithVar(text, name) ==
    /\ Len(text) >= 1 + Len(name)
    /\ text[1] = "$"
    /\ SubSeq(text, 2, 1 + Len(name)) = name

\* the alternation '$name1|$name2|...' at the start of the text: the index
\* of the first item of the dict whose name matches, 0 if there is none
FirstMatch(text, variables) ==
    LET hits == {i \in 1..Len(variables) : StartsWithVar(text, variables[i].name)}
    IN  IF hits = {} THEN 0 ELSE CHOOSE i \in hits : \A j \in hits : i <= j

\* re.sub(pattern, replace_var, sql): one pass from left to right
RECURSIVE ReSub(_, _)
ReSub(text, variables) ==
    IF text = <<>> THEN <<>>
    ELSE LET i == FirstMatch(text, variables) IN
         IF i = 0 THEN <<Head(text)>> \o ReSub(Tail(text), variables)
         ELSE FormatValue(variables[i].value)
              \o ReSub(SubSeq(text, 2 + Len(variables[i].name), Len(text)), variables)

\* _substitute_variables
SubstituteVariables(sql, variables) ==
    IF variables = <<>> THEN sql ELSE ReSub(sql, variables)

NoSubst == [called |-> FALSE, sql |-> <<>>, variables |-> <<>>, out |-> <<>>]

SubstIdle == subst = NoSubst

\* no Materializer.materialize call was made
MzIdle ==
    /\ mzType = "cdc"
    /\ mzTarget = {}
    /\ mzExists = FALSE
    /\ mzClock = 0
    /\ mzPrev = {}
    /\ mzSource = <<>>
    /\ mzResult = "none"
    /\ strategyCache = {}

\* no execute_transaction call was made
TxIdle ==
    /\ txPc = "idle"
    /\ txQueries = 0
    /\ txHasVars = FALSE
    /\ txIssued = <<>>
    /\ txResult = "none"

NoCleanupResult == [status |-> "none", cause |-> "none"]

\* no PolarsCDCMaterialization.materialize call was made
ClIdle ==
    /\ clPc = "idle"
    /\ clChunks = 0
    /\ clSteps = <<>>
    /\ clSeq = 0
    /\ clCreated = {}
    /\ clDropIssued = {}
    /\ clPending = "none"
    /\ clFailures = <<>>
    /\ clResult = NoCleanupResult

\* a StateManager without entries and no record handed out
GetIdle ==
    /\ gHeap = [o \in 1..MaxGetOps |-> NoState]
    /\ gStore = [n \in PlanNames |-> 0]
    /\ gNext = 1
    /\ gHandle = 0
    /\ gSnapshot = NoState
    /\ gExpected = [n \in PlanNames |-> NoState]
    /\ gCallerChanged = FALSE
    /\ gOps = 0

\* a pool that no get_connection was made on
HealthIdle ==
    /\ hPoolSize = 1
    /\ hPool = <<>>
    /\ hInUse = 0
    /\ hFailed = {}
    /\ hClosed = {}
    /\ hNextConn = 1
    /\ hLast = "none"

\* no materialize call of an incremental strategy was made
NoMaterialization ==
    [called |-> FALSE, existed |-> FALSE, found |-> FALSE, create |-> FALSE,
     insert |-> <<>>, status |-> "none", failed |-> FALSE,
     stored |-> <<>>, max_time |-> <<>>, before |-> <<>>]

IncrIdle ==
    /\ iStrategy = "time"
    /\ iModel = <<"t">>
    /\ iConfig = "none"
    /\ iHasState = FALSE
    /\ iCatalog = {}
    /\ iLastTime = <<>>
    /\ iClock = 0
    /\ iOkRun = 0
    /\ iLast = NoMaterialization

\* no staging table is streamed
StreamIdle ==
    /\ sRows = {}
    /\ sChunkSize = 1
    /\ sOffset = 0
    /\ sPc = "done"
    /\ sChunks = <<>>
    /\ sQueries = 0

\* the models and columns of a lineage
LinModels == {"a", "b"}
LinColumns == {"x", "y"}

\* no get_column_impact call was made
NoImpact == [called |-> FALSE, model |-> "a", column |-> "x", raised |-> FALSE, impacted |-> {}]

LineageIdle ==
    /\ lModels = [m \in LinModels |-> [dependencies |-> {}, columns |-> [c \in LinColumns |-> {}]]]
    /\ lResult = NoImpact

\* no add_model call was recorded
SchedIdle ==
    /\ added = {}

\* the threads that share one ConnectionPool
IdleThreads == {"t1", "t2"}

\* a pool that no thread has called
IdleListIdle ==
    /\ cPoolSize = 1
    /\ cLazyInit = TRUE
    /\ cInitialized = FALSE
    /\ cPool = <<>>
    /\ cNextConn = 1
    /\ cPc = [t \in IdleThreads |-> "start"]
    /\ cConn = [t \in IdleThreads |-> 0]

LateIdle ==
    /\ IncrIdle
    /\ StreamIdle
    /\ LineageIdle
    /\ SchedIdle
    /\ IdleListIdle

MoreIdle ==
    /\ MzIdle
    /\ TxIdle
    /\ ClIdle
    /\ GetIdle
    /\ HealthIdle
    /\ LateIdle

RestIdle ==
    /\ QueryIdle
    /\ PoolIdle
    /\ SaveIdle
    /\ ParIdle
    /\ SubstIdle
    /\ MoreIdle

(***************************************************************************)
(* The calls on a DependencyGraph.  ret holds what the last call returned;  *)
(* a query is made when no earlier result is held (a second query on the   *)
(* same graph returns what a first one can return).                        *)
(***************************************************************************)
NoRet == [op |-> "none", status |-> "ok", levels |-> <<>>, found |-> FALSE, path |-> <<>>,
          changed_models |-> {}, affected |-> {}]

AddModelCall ==
    /\ graphOps < MaxGraphOps
    /\ \E name \in Names, deps \in SUBSET Names, perm \in Perms :
          nodes' = AddModel(nodes, name, deps, perm)
    /\ ret' = NoRet
    /\ graphOps' = graphOps + 1
    /\ UNCHANGED <<planVars, cdcVars, runVars, restVars>>

RemoveModelCall ==
    /\ graphOps < MaxGraphOps
    /\ \E name \in Names : nodes' = RemoveModel(nodes, name)
    /\ ret' = NoRet
    /\ graphOps' = graphOps + 1
    /\ UNCHANGED <<planVars, cdcVars, runVars, restVars>>

TopologicalSortCall ==
    /\ ret.op = "none"
    /\ \E perm \in Perms :
          LET r == TopologicalSort(nodes, perm) IN
          ret' = [NoRet EXCEPT !.op = "topological_sort", !.status = r.status, !.levels = r.levels]
    /\ UNCHANGED <<nodes, graphOps>>
    /\ UNCHANGED <<planVars, cdcVars, runVars, restVars>>

DetectCircularDependenciesCall ==
    /\ ret.op = "none"
    /\ \E perm \in Perms :
          LET r == DetectCircularDependencies(nodes, perm) IN
          ret' = [NoRet EXCEPT !.op = "detect_circular_dependencies",
                               !.found = r.found, !.path = r.path]
    /\ UNCHANGED <<nodes, graphOps>>
    /\ UNCHANGED <<planVars, cdcVars, runVars, restVars>>

GetChangedModelsImpactCall ==
    /\ ret.op = "none"
    /\ \E changed_models \in SUBSET Names :
          ret' = [NoRet EXCEPT !.op = "get_changed_models_impact",
                               !.changed_models = changed_models,
                               !.affected = GetChangedModelsImpact(nodes, changed_models)]
    /\ UNCHANGED <<nodes, graphOps>>
    /\ UNCHANGED <<planVars, cdcVars, runVars, restVars>>

InitGraph ==
    /\ nodes = EmptyGraph
    /\ ret = NoRet
    /\ graphOps = 0
    /\ PlanIdle
    /\ CdcIdle
    /\ RunIdle
    /\ RestIdle

NextGraph ==
    \/ AddModelCall
    \/ RemoveModelCall
    \/ TopologicalSortCall
    \/ DetectCircularDependenciesCall

SpecGraph == InitGraph /\ [][NextGraph]_vars

\* the graph is built by add_model and remove_model calls and is asked for
\* the impact of a set of changed models
NextImpact ==
    \/ AddModelCall
    \/ RemoveModelCall
    \/ GetChangedModelsImpactCall

SpecImpact == InitGraph /\ [][NextImpact]_vars

(***************************************************************************)
(* Properties of the DependencyGraph.                                      *)
(***************************************************************************)
\* The nodes reachable from n by one or more dependency edges.
RECURSIVE ReachDeps(_, _, _)
ReachDeps(g, frontier, seen) ==
    LET next == UNION {g.dependencies[x] : x \in frontier} IN
    IF next \subseteq seen THEN seen ELSE ReachDeps(g, next \ seen, seen \cup next)

AllDepsOf(g, n) == ReachDeps(g, {n}, {})

\* The dependency relation of the graph has a cycle.
HasCycle(g) == \E n \in Range(g.keys) : n \in AllDepsOf(g, n)

\* The number of the level of `levels` that holds n (0 if none does).
LevelOf(levels, n) ==
    IF \E k \in 1..Len(levels) : n \in Range(levels[k])
    THEN CHOOSE k \in 1..Len(levels) : n \in Range(levels[k])
    ELSE 0

Occurrences(s, x) == Cardinality({i \in 1..Len(s) : s[i] = x})

ReturnedOrder == ret.op = "topological_sort" /\ ret.status = "ok"

\* The nodes reachable from the frontier by one or more dependents edges.
RECURSIVE ReachDependents(_, _, _)
ReachDependents(g, frontier, seen) ==
    LET next == UNION {g.dependents[x] : x \in frontier} IN
    IF next \subseteq seen THEN seen ELSE ReachDependents(g, next \ seen, seen \cup next)

\* C25: get_changed_models_impact returns exactly the changed models and
\* every node reachable from a changed model by one or more dependents
\* edges, on every graph built by add_model and remove_model calls, the
\* graphs with cycles included.
C25_ImpactIsDependentsClosure ==
    ret.op = "get_changed_models_impact" =>
        ret.affected = ret.changed_models \cup ReachDependents(nodes, ret.changed_models, {})

\* the impact of one changed model on a graph with a cycle reaches the
\* three nodes
C25_Witness ==
    /\ ret.op = "get_changed_models_impact"
    /\ HasCycle(nodes)
    /\ Cardinality(ret.changed_models) = 1
    /\ Cardinality(ret.affected) = 3
    /\ \E n \in ret.changed_models : Cardinality(nodes.dependents[n]) = 1

\* C1: on an acyclic graph built by any add/remove sequence, topological_sort
\* returns levels that hold every node exactly once, and every dependency of
\* a node lies in a strictly earlier level than the node.
C1_TopologicalOrder ==
    (ret.op = "topological_sort" /\ ~HasCycle(nodes)) =>
        /\ ret.status = "ok"
        /\ \A n \in Range(nodes.keys) : Occurrences(Flatten(ret.levels), n) = 1
        /\ Range(Flatten(ret.levels)) = Range(nodes.keys)
        /\ \A b \in Range(nodes.keys) : \A a \in nodes.dependencies[b] :
              /\ LevelOf(ret.levels, a) > 0
              /\ LevelOf(ret.levels, a) < LevelOf(ret.levels, b)

\* C2: on a graph with a cycle, detect_circular_dependencies returns a path
\* that is exactly the cycle: it closes on its own first node (no lead-in
\* nodes before the back-edge target) and its last node is a dependency of
\* its first node.
C2_CyclePathIsCycle ==
    (ret.op = "detect_circular_dependencies" /\ HasCycle(nodes)) =>
        /\ ret.found
        /\ ret.path # <<>>
        /\ ret.path[1] \in nodes.dependencies[ret.path[Len(ret.path)]]
        /\ ret.path[Len(ret.path)] \in nodes.dependencies[ret.path[1]]

\* C3: topological_sort raises CircularDependencyError exactly when the graph
\* has a dependency cycle, and detect_circular_dependencies returns None
\* exactly when the graph is acyclic.
C3_CycleIffError ==
    /\ ret.op = "topological_sort" =>
          ((ret.status = "CircularDependencyError") <=> HasCycle(nodes))
    /\ ret.op = "detect_circular_dependencies" =>
          (~ret.found <=> ~HasCycle(nodes))

\* C3 witness: a sort of a graph of three nodes with a cycle was refused.
C3_Witness ==
    /\ ret.op = "topological_sort"
    /\ ret.status = "CircularDependencyError"
    /\ HasCycle(nodes)
    /\ Len(nodes.keys) = 3

\* The nodes of the levels before level k.
Earlier(levels, k) == UNION {Range(levels[j]) : j \in 1..(k - 1)}

\* C4: on an acyclic graph, level k of the returned order holds exactly the
\* nodes whose dependencies all lie in earlier levels and that are not in an
\* earlier level themselves.
C4_LevelsAreLongestChains ==
    (ReturnedOrder /\ ~HasCycle(nodes)) =>
        \A k \in 1..Len(ret.levels) :
            Range(ret.levels[k]) =
                {n \in Range(nodes.keys) :
                    /\ nodes.dependencies[n] \subseteq Earlier(ret.levels, k)
                    /\ n \notin Earlier(ret.levels, k)}

\* C5: after any sequence of add_model and remove_model calls, a is in
\* b.dependencies exactly when b is in a.dependents.
C5_DependentsMirrorDependencies ==
    \A a \in Names, b \in Names :
        a \in nodes.dependencies[b] <=> b \in nodes.dependents[a]

(***************************************************************************)
(* The calls on a StateManager and a PlanGenerator.  The project (parsed)  *)
(* and its dependency graph are fixed at the start, as in cli.plan.  plan  *)
(* and changed hold the result of the last query; a query is made when no  *)
(* earlier result is held, and a mutating call drops the result.           *)
(***************************************************************************)
CurrentFileHashes == {"h1"}

\* Iteration orders of the sets of names of the planned project.
PlanPerms == PermsOf(PlanNames)

ParsedModels(n) ==
    {NoModel} \cup
    {[present |-> TRUE, file_hash |-> fh, config_hash |-> ch, dependencies |-> deps] :
        fh \in CurrentFileHashes, ch \in ConfigHashes, deps \in DepLists(n)}

IsPresent(n) == n \in PlanNames /\ parsed[n].present

InitPlan ==
    /\ parsed \in {f \in [PlanNames -> UNION {ParsedModels(n) : n \in PlanNames}] :
                      \A n \in PlanNames : f[n] \in ParsedModels(n)}
    /\ \E perm \in PlanPerms :
          nodes = BuildDependencyGraph(EmptyGraph,
                      SetToSeq({n \in PlanNames : parsed[n].present}, perm), parsed, perm)
    /\ ret = NoRet
    /\ graphOps = 0
    /\ models = [n \in PlanNames |-> NoState]
    /\ plan = NoPlan
    /\ changed = NoChanged
    /\ stateOps = 0
    /\ CdcIdle
    /\ RunIdle
    /\ RestIdle

UpdateModelStateCall ==
    /\ stateOps < MaxStateOps
    /\ \E n \in PlanNames, fh \in FileHashes, ch \in ConfigHashes :
          \E deps \in DepLists(n) :
              models' = UpdateModelState(models, n, fh, deps, ch)
    /\ stateOps' = stateOps + 1
    /\ plan' = NoPlan
    /\ changed' = NoChanged
    /\ UNCHANGED <<parsed, graphVars, cdcVars, runVars, restVars>>

MarkExecutionCall ==
    /\ stateOps < MaxStateOps
    /\ \E n \in PlanNames, success \in BOOLEAN :
          models' = MarkExecution(models, n, success)
    /\ stateOps' = stateOps + 1
    /\ plan' = NoPlan
    /\ changed' = NoChanged
    /\ UNCHANGED <<parsed, graphVars, cdcVars, runVars, restVars>>

ClearStateCall ==
    /\ stateOps < MaxStateOps
    /\ \/ \E n \in PlanNames : models' = ClearState(models, n)
       \/ models' = ClearAllState(models)
    /\ stateOps' = stateOps + 1
    /\ plan' = NoPlan
    /\ changed' = NoChanged
    /\ UNCHANGED <<parsed, graphVars, cdcVars, runVars, restVars>>

GeneratePlanCall ==
    /\ ~plan.called /\ ~changed.called
    /\ \E models_to_run \in {<<>>} \cup {<<n>> : n \in PlanNames},
          full_refresh \in BOOLEAN, perm \in PlanPerms :
          LET r == GeneratePlan(nodes, models, parsed, models_to_run, full_refresh, perm) IN
          plan' = [called |-> TRUE, models_to_run |-> models_to_run,
                   full_refresh |-> full_refresh, status |-> r.status,
                   changes |-> r.changes, execution_order |-> r.execution_order,
                   total_models |-> r.total_models]
    /\ changed' = NoChanged
    /\ UNCHANGED <<models, parsed, stateOps, graphVars, cdcVars, runVars, restVars>>

HasChangedCall ==
    /\ ~plan.called /\ ~changed.called
    /\ \E n \in PlanNames, fh \in FileHashes, ch \in ConfigHashes :
          changed' = [called |-> TRUE, name |-> n, file_hash |-> fh, config_hash |-> ch,
                      result |-> HasChanged(models, n, fh, ch)]
    /\ plan' = NoPlan
    /\ UNCHANGED <<models, parsed, stateOps, graphVars, cdcVars, runVars, restVars>>

NextPlan ==
    \/ UpdateModelStateCall
    \/ MarkExecutionCall
    \/ ClearStateCall
    \/ GeneratePlanCall
    \/ HasChangedCall

SpecPlan == InitPlan /\ [][NextPlan]_vars

(***************************************************************************)
(* Properties of the StateManager and the PlanGenerator.                   *)
(***************************************************************************)
\* The stored state of n carries the fingerprint of the current model n.
SameFingerprint(n) ==
    /\ models[n].exists
    /\ models[n].file_hash = parsed[n].file_hash
    /\ models[n].config_hash = parsed[n].config_hash
    /\ Range(models[n].dependencies) = Range(parsed[n].dependencies)

\* C7: with full_refresh off, a model whose stored state has the file_hash,
\* the config_hash and the dependency set of the current parsed model is
\* classified no_change.
C7_UnchangedIsNoChange ==
    (plan.called /\ ~plan.full_refresh) =>
        \A i \in 1..Len(plan.changes) :
            SameFingerprint(plan.changes[i].model_name) =>
                plan.changes[i].change_type = "no_change"

\* C7 witness: a plan without full refresh classified a model that has a
\* stored state with a dependency, and the fingerprints agree.
C7_Witness ==
    /\ plan.called
    /\ ~plan.full_refresh
    /\ \E i \in 1..Len(plan.changes) :
          /\ SameFingerprint(plan.changes[i].model_name)
          /\ models[plan.changes[i].model_name].dependencies # <<>>

\* C27: every change that generate_plan emits for a model without stored
\* state has the type create and the reason "New model", with full_refresh
\* on as well as off.
C27_NewModelIsCreate ==
    plan.called =>
        \A i \in 1..Len(plan.changes) :
            ~models[plan.changes[i].model_name].exists =>
                /\ plan.changes[i].change_type = "create"
                /\ plan.changes[i].reason = "New model"

\* update_model_state was not called for n: n has no state record, or the
\* record that mark_execution created, whose file_hash is empty (the hash of
\* a model file is never empty)
NeverFingerprinted(n) == ~models[n].exists \/ models[n].file_hash = ""

\* C39: with full_refresh off, a model for which update_model_state was
\* never called is classified create, also when mark_execution was called
\* for its name before.
C39_UnfingerprintedIsCreate ==
    (plan.called /\ ~plan.full_refresh) =>
        \A i \in 1..Len(plan.changes) :
            NeverFingerprinted(plan.changes[i].model_name) =>
                plan.changes[i].change_type = "create"

\* C8: every name of plan.execution_order is classified create or update in
\* plan.changes; in particular a model classified no_change never appears
\* in execution_order, also when a created or updated model depends on it.
C8_NoChangeNotExecuted ==
    (plan.called /\ plan.status = "ok") =>
        \A i \in 1..Len(plan.changes) :
            plan.changes[i].change_type = "no_change" =>
                plan.changes[i].model_name \notin Range(Flatten(plan.execution_order))

\* C9: has_changed(name, file_hash, config_hash) is true exactly when no
\* state is stored for name, or the stored file_hash differs, or the stored
\* config_hash differs, or the stored dependency set differs from the
\* current one.
C9_HasChangedIffFingerprintDiffers ==
    (changed.called /\ IsPresent(changed.name)) =>
        (changed.result <=>
            \/ ~models[changed.name].exists
            \/ models[changed.name].file_hash # changed.file_hash
            \/ models[changed.name].config_hash # changed.config_hash
            \/ Range(models[changed.name].dependencies) #
                   Range(parsed[changed.name].dependencies))

(***************************************************************************)
(* The materialize calls on one CDC model.  The table is created by the    *)
(* first call and every later call is an incremental load.                 *)
(***************************************************************************)
InitCDC ==
    /\ target = EmptyBag
    /\ tableExists = FALSE
    /\ chunkSize \in 1..MaxChunk
    /\ clock = 0
    /\ lastBatch = <<>>
    /\ prevTarget = EmptyBag
    /\ iuuStep = 0
    /\ nodes = EmptyGraph
    /\ ret = NoRet
    /\ graphOps = 0
    /\ PlanIdle
    /\ RunIdle
    /\ RestIdle

\* materialize when the target table does not exist: _initial_load
MaterializeInitialLoad ==
    /\ clock < MaxLoads
    /\ ~tableExists
    /\ \E batch \in Batches :
          /\ target' = InitialLoad(batch, chunkSize, clock + 1)
          /\ lastBatch' = batch
          /\ iuuStep' = IF batch = <<[key |-> 1, op |-> "I"]>> THEN 1 ELSE 0
    /\ prevTarget' = target
    /\ tableExists' = TRUE
    /\ clock' = clock + 1
    /\ UNCHANGED <<chunkSize, graphVars, planVars, runVars, restVars>>

\* materialize when the target table exists: _process_cdc_with_retirement
MaterializeIncremental ==
    /\ clock < MaxLoads
    /\ tableExists
    /\ \E batch \in Batches :
          /\ target' = ProcessCdcWithRetirement(target, batch, chunkSize, clock + 1)
          /\ lastBatch' = batch
          /\ iuuStep' = IF iuuStep \in {1, 2} /\ batch = <<[key |-> 1, op |-> "U"]>>
                         THEN iuuStep + 1 ELSE 0
    /\ prevTarget' = target
    /\ clock' = clock + 1
    /\ UNCHANGED <<tableExists, chunkSize, graphVars, planVars, runVars, restVars>>

NextCDC ==
    \/ MaterializeInitialLoad
    \/ MaterializeIncremental

SpecCDC == InitCDC /\ [][NextCDC]_vars

\* the number of rows of the target with the key and obsolete_date NULL
CurrentRows(k) ==
    BagCardinality([r \in {x \in BagToSet(target) : x.key = k /\ x.obsolete_date = NULL}
                       |-> target[r]])

\* the rows of a table with the key
RowsOf(t, k) == {r \in BagToSet(t) : r.key = k}

\* the number of rows of a table with the key and obsolete_date NULL
CurrentRowsIn(t, k) ==
    BagCardinality([r \in {x \in RowsOf(t, k) : x.obsolete_date = NULL} |-> t[r]])

\* C20: an incremental load of one U row for a key that has one current
\* row retires that row (its obsolete_date is set) and inserts exactly one
\* row for the key with obsolete_date NULL; after the loads [I], [U], [U]
\* on one key (an initial load and two incremental loads) the target has
\* exactly three rows for the key, exactly one of them current, and the
\* row retired first carries the smaller obsolete_date.
C20_UpdateRetiresAndInserts ==
    /\ (clock >= 2 /\ Len(lastBatch) = 1 /\ lastBatch[1].op = "U"
            /\ CurrentRowsIn(prevTarget, lastBatch[1].key) = 1) =>
          LET k == lastBatch[1].key
              old == CHOOSE r \in RowsOf(prevTarget, k) : r.obsolete_date = NULL
          IN  /\ CopiesIn([old EXCEPT !.obsolete_date = clock], target) >= 1
              /\ CopiesIn(old, target) = 0
              /\ CurrentRowsIn(target, k) = 1
              /\ CopiesIn([key |-> k, cdc_timestamp |-> clock, obsolete_date |-> NULL], target) = 1
              /\ BagCardinality(target) = BagCardinality(prevTarget) + 1
              /\ \A r \in BagToSet(prevTarget) :
                    r.obsolete_date # NULL => CopiesIn(r, target) >= CopiesIn(r, prevTarget)
    /\ iuuStep = 3 =>
          /\ BagCardinality([r \in RowsOf(target, 1) |-> target[r]]) = 3
          /\ CurrentRowsIn(target, 1) = 1
          /\ \E r1, r2 \in RowsOf(target, 1) :
                /\ r1.cdc_timestamp < r2.cdc_timestamp
                /\ r1.obsolete_date # NULL
                /\ r2.obsolete_date # NULL
                /\ r1.obsolete_date < r2.obsolete_date

\* the target after the loads [I], [U], [U]
C20_Witness ==
    /\ iuuStep = 3
    /\ clock = 3
    /\ lastBatch = <<[key |-> 1, op |-> "U"]>>
    /\ CurrentRowsIn(prevTarget, 1) = 1

\* C21: an incremental load of one D (or E) row for a key that has a
\* current row sets obsolete_date on every current row of the key and
\* inserts no row; a D (or E) row for a key that has no current row, as a
\* second D for the key is, changes no row of the target.
C21_DeleteRetiresIdempotent ==
    (clock >= 2 /\ Len(lastBatch) = 1 /\ lastBatch[1].op \in {"D", "E"}) =>
        LET k == lastBatch[1].key IN
        /\ BagCardinality(target) = BagCardinality(prevTarget)
        /\ CurrentRowsIn(target, k) = 0
        /\ \A r \in BagToSet(prevTarget) :
              IF r.key = k /\ r.obsolete_date = NULL
              THEN /\ CopiesIn(r, target) = 0
                   /\ CopiesIn([r EXCEPT !.obsolete_date = clock], target)
                          = CopiesIn(r, prevTarget)
              ELSE CopiesIn(r, target) = CopiesIn(r, prevTarget)
        /\ CurrentRowsIn(prevTarget, k) = 0 => target = prevTarget

\* a D for key 1 after the only row of the key was retired by the load before
C21_Witness ==
    /\ clock = 3
    /\ lastBatch = <<[key |-> 1, op |-> "D"]>>
    /\ prevTarget = SetToBag({[key |-> 1, cdc_timestamp |-> 1, obsolete_date |-> 2]})
    /\ target = prevTarget

\* the operations of a chunk applied one at a time, in their input order
RECURSIVE OneAtATime(_, _, _)
OneAtATime(t, df, now) ==
    IF df = <<>> THEN t
    ELSE OneAtATime(ProcessCdcChunkWithRetirement(t, <<Head(df)>>, now), Tail(df), now)

\* C36: an incremental load whose rows form one chunk with several
\* operations leaves, for every key, as many rows and as many current rows
\* as the same operations applied one at a time in their input order.
C36_ChunkEqualsInputOrder ==
    (clock >= 2 /\ Len(lastBatch) >= 2 /\ Len(lastBatch) <= chunkSize) =>
        LET one == OneAtATime(prevTarget, lastBatch, clock) IN
        \A k \in CdcKeys :
            /\ CurrentRowsIn(target, k) = CurrentRowsIn(one, k)
            /\ BagCardinality([r \in RowsOf(target, k) |-> target[r]])
                  = BagCardinality([r \in RowsOf(one, k) |-> one[r]])

\* C6: after any sequence of materialize calls (the initial load and the
\* incremental loads, with any mix of I, U, D and E rows) every unique_key
\* has at most one row of the target whose obsolete_date is NULL.
C6_AtMostOneCurrentRow ==
    \A k \in CdcKeys : CurrentRows(k) <= 1

(***************************************************************************)
(* run_all: the models of the project are parsed, the graph is built, the  *)
(* levels of topological_sort are executed one after the other and each    *)
(* model of a level is executed by execute_model.                          *)
(***************************************************************************)
InitRun ==
    /\ parsed \in [PlanNames -> UNION {ParsedModels(n) : n \in PlanNames}]
    /\ \A n \in PlanNames : parsed[n] \in ParsedModels(n)
    /\ \E perm \in PlanPerms :
          nodes = BuildDependencyGraph(EmptyGraph,
                      SetToSeq({n \in PlanNames : parsed[n].present}, perm), parsed, perm)
    /\ ret = NoRet
    /\ graphOps = 0
    /\ models = [n \in PlanNames |-> NoState]
    /\ plan = NoPlan
    /\ changed = NoChanged
    /\ stateOps = 0
    /\ CdcIdle
    /\ RestIdle
    /\ runPc = "idle"
    /\ failFast \in BOOLEAN
    /\ executionOrder = <<>>
    /\ levelIdx = 0
    /\ posInLevel = 0
    /\ results = <<>>

\* run_all up to the loop over the levels
RunAllStart ==
    /\ runPc = "idle"
    /\ \E perm \in PlanPerms :
          LET r == TopologicalSort(nodes, perm) IN
          IF r.status = "ok" /\ Len(r.levels) > 0
          THEN /\ runPc' = "running"
               /\ executionOrder' = r.levels
               /\ levelIdx' = 1
               /\ posInLevel' = 1
          ELSE /\ runPc' = IF r.status = "ok" THEN "done" ELSE "aborted"
               /\ UNCHANGED <<executionOrder, levelIdx, posInLevel>>
    /\ UNCHANGED <<failFast, results, graphVars, planVars, cdcVars, restVars>>

\* An execute_model that raises on every failure.
RaisesAlways(status) == status = "failed"

\* execute_model: `if self.fail_fast: raise ModelExecutionError`
Raises(status) == status = "failed" /\ failFast

\* execute_model on the next model of the current level.  A model without
\* a file fails; any other model succeeds or fails.  With fail_fast the
\* failure is raised and ends the run.
ExecuteModel ==
    /\ runPc = "running"
    /\ LET level == executionOrder[levelIdx]
           model_name == level[posInLevel]
           lastOfLevel == posInLevel = Len(level)
           lastLevel == levelIdx = Len(executionOrder)
       IN  \E status \in (IF IsPresent(model_name) THEN {"success", "failed"} ELSE {"failed"}) :
              IF Raises(status)
              THEN /\ runPc' = "aborted"
                   /\ UNCHANGED <<results, levelIdx, posInLevel>>
              ELSE /\ results' = Append(results, [model_name |-> model_name, status |-> status])
                   /\ runPc' = IF lastOfLevel /\ lastLevel THEN "done" ELSE "running"
                   /\ levelIdx' = IF lastOfLevel /\ ~lastLevel THEN levelIdx + 1 ELSE levelIdx
                   /\ posInLevel' = IF lastOfLevel
                                    THEN (IF lastLevel THEN posInLevel ELSE 1)
                                    ELSE posInLevel + 1
    /\ UNCHANGED <<failFast, executionOrder, graphVars, planVars, cdcVars, restVars>>

NextRun ==
    \/ RunAllStart
    \/ ExecuteModel

SpecRun == InitRun /\ [][NextRun]_vars

C10_ExecutedModelsAreMarked ==
    \A i \in 1..Len(results) :
        LET name == results[i].model_name
            IsName(r) == r.model_name = name
        IN  /\ models[name].exists
            /\ models[name].execution_count = Len(SelectSeq(results, IsName))

(***************************************************************************)
(* One execute_query call: the loop `for attempt in range(max_retries)`.   *)
(***************************************************************************)
InitQuery ==
    /\ qPc = "idle"
    /\ maxRetries \in 0..MaxRetries
    /\ outcomes = <<>>
    /\ delays = <<>>
    /\ qResult = NoQueryResult
    /\ PoolIdle
    /\ SaveIdle
    /\ ParIdle
    /\ SubstIdle
    /\ MoreIdle
    /\ nodes = EmptyGraph
    /\ ret = NoRet
    /\ graphOps = 0
    /\ PlanIdle
    /\ CdcIdle
    /\ RunIdle

nonQueryVars == <<graphVars, planVars, cdcVars, runVars, poolVars, saveVars, parVars, substVars, moreVars>>

\* execute_query up to the first attempt; range(0) is empty
ExecuteQueryCall ==
    /\ qPc = "idle"
    /\ IF maxRetries = 0
       THEN /\ qPc' = "raised"
            /\ qResult' = TransientConnectionError(maxRetries)
       ELSE /\ qPc' = "attempting"
            /\ UNCHANGED qResult
    /\ UNCHANGED <<maxRetries, outcomes, delays, nonQueryVars>>

\* one iteration of the loop: the attempt, and the handling of its error
QueryAttempt ==
    /\ qPc = "attempting"
    /\ \E o \in Outcomes :
          LET attempt == Len(outcomes) IN
          /\ outcomes' = Append(outcomes, o)
          /\ CASE o.kind = "ok" ->
                    /\ qPc' = "returned"
                    /\ qResult' = [kind |-> "result", attempt |-> attempt + 1, retry_count |-> 0]
                    /\ UNCHANGED delays
               [] o.kind = "SnowflakeError" /\ IsRetryableError(o.errno) ->
                    /\ delays' = Append(delays, Backoff(attempt))
                    /\ IF attempt + 1 < maxRetries
                       THEN /\ qPc' = "attempting"
                            /\ UNCHANGED qResult
                       ELSE /\ qPc' = "raised"
                            /\ qResult' = TransientConnectionError(maxRetries)
               [] o.kind = "SnowflakeError" /\ ~IsRetryableError(o.errno) ->
                    /\ qPc' = "raised"
                    /\ qResult' = [kind |-> "ConnectionError", attempt |-> attempt + 1,
                                   retry_count |-> 0]
                    /\ UNCHANGED delays
               [] o.kind = "Exception" ->
                    /\ qPc' = "raised"
                    /\ qResult' = TransientConnectionError(maxRetries)
                    /\ UNCHANGED delays
    /\ UNCHANGED <<maxRetries, nonQueryVars>>

NextQuery ==
    \/ ExecuteQueryCall
    \/ QueryAttempt

SpecQuery == InitQuery /\ [][NextQuery]_vars

IsRetryableOutcome(o) == o.kind = "SnowflakeError" /\ o.errno \in RetryableCodes

\* C11: with max_retries = n >= 1, when the attempts before attempt k <= n
\* failed with retryable codes and attempt k succeeded, execute_query
\* returns the result of attempt k; when n attempts failed with retryable
\* codes, it raises TransientConnectionError with retry_count = n after
\* exactly n attempts.
C11_RetryUntilSuccessOrExhausted ==
    (maxRetries >= 1 /\ Len(outcomes) >= 1
        /\ \A i \in 1..(Len(outcomes) - 1) : IsRetryableOutcome(outcomes[i])) =>
        LET k == Len(outcomes) IN
        /\ k <= maxRetries
        /\ outcomes[k].kind = "ok" =>
              /\ qPc = "returned"
              /\ qResult.kind = "result"
              /\ qResult.attempt = k
        /\ (IsRetryableOutcome(outcomes[k]) /\ k < maxRetries) => qPc = "attempting"
        /\ (IsRetryableOutcome(outcomes[k]) /\ k = maxRetries) =>
              /\ qPc = "raised"
              /\ qResult.kind = "TransientConnectionError"
              /\ qResult.retry_count = maxRetries

\* a transient error resolved on the last attempt, and a persistent one
C11_Witness ==
    /\ maxRetries = MaxRetries
    /\ Len(outcomes) = maxRetries
    /\ \A i \in 1..(Len(outcomes) - 1) : IsRetryableOutcome(outcomes[i])
    /\ outcomes[Len(outcomes)].kind = "ok"
    /\ qPc = "returned"

\* C12: a SnowflakeError whose code is not retryable ends execute_query on
\* the attempt where it occurs: it is the last attempt, no delay is taken
\* for it, and the error raised is not a TransientConnectionError.
C12_NonRetryableSurfacesImmediately ==
    \A i \in 1..Len(outcomes) :
        (outcomes[i].kind = "SnowflakeError" /\ outcomes[i].errno \notin RetryableCodes) =>
            /\ i = Len(outcomes)
            /\ qPc = "raised"
            /\ Len(delays) = i - 1
            /\ qResult.kind # "TransientConnectionError"
            /\ qResult.kind = "ConnectionError"

\* a non-retryable error met after a retried attempt
C12_Witness ==
    /\ Len(outcomes) = 2
    /\ IsRetryableOutcome(outcomes[1])
    /\ outcomes[2].kind = "SnowflakeError"
    /\ outcomes[2].errno \notin RetryableCodes
    /\ qPc = "raised"

\* C38: when execute_query raises TransientConnectionError with
\* retry_count = r, exactly r attempts were made and each failed with a
\* retryable code; an error that is no SnowflakeError, and a call with
\* max_retries = 0, do not end in TransientConnectionError.
C38_ExhaustedMeansRetried ==
    qResult.kind = "TransientConnectionError" =>
        /\ Len(outcomes) = qResult.retry_count
        /\ \A i \in 1..Len(outcomes) : IsRetryableOutcome(outcomes[i])
        /\ maxRetries >= 1

(***************************************************************************)
(* Concurrent callers of ConnectionPool.get_connection.  A thread checks   *)
(* _initialized, initializes the pool if it found it unset, takes a        *)
(* connection under the lock, uses it and gives it back under the lock.    *)
(* _create_connection is taken to succeed.                                 *)
(***************************************************************************)
InitPool ==
    /\ poolSize \in 1..MaxPoolSize
    /\ lazyInit \in BOOLEAN
    /\ initialized = FALSE
    /\ poolLen = 0
    /\ opened = 0
    /\ tpc = [t \in PoolThreads |-> "start"]
    /\ QueryIdle
    /\ SaveIdle
    /\ ParIdle
    /\ SubstIdle
    /\ MoreIdle
    /\ nodes = EmptyGraph
    /\ ret = NoRet
    /\ graphOps = 0
    /\ PlanIdle
    /\ CdcIdle
    /\ RunIdle

nonPoolVars == <<graphVars, planVars, cdcVars, runVars, queryVars, saveVars, parVars, substVars, moreVars>>

\* get_connection: `if not self._initialized`, and the same test at the top
\* of initialize, both made without the lock
GetConnectionStart(t) ==
    /\ tpc[t] = "start"
    /\ tpc' = [tpc EXCEPT ![t] = IF initialized THEN "acquire" ELSE "initializing"]
    /\ UNCHANGED <<poolSize, lazyInit, initialized, poolLen, opened, nonPoolVars>>

\* initialize: with lazy_init only the flag is set, otherwise pool_size
\* connections are created under the lock
Initialize(t) ==
    /\ tpc[t] = "initializing"
    /\ initialized' = TRUE
    /\ IF lazyInit
       THEN UNCHANGED <<poolLen, opened>>
       ELSE /\ poolLen' = poolLen + poolSize
            /\ opened' = opened + poolSize
    /\ tpc' = [tpc EXCEPT ![t] = "acquire"]
    /\ UNCHANGED <<poolSize, lazyInit, nonPoolVars>>

\* get_connection, the block under the lock and the health check: an idle
\* connection is popped, otherwise a connection is created (in both of the
\* other branches); an unhealthy connection is closed and replaced.
Acquire(t) ==
    /\ tpc[t] = "acquire"
    /\ \E healthy \in BOOLEAN :
          LET afterLock == IF poolLen > 0 THEN opened ELSE opened + 1 IN
          opened' = IF healthy THEN afterLock ELSE (afterLock - 1) + 1
    /\ poolLen' = IF poolLen > 0 THEN poolLen - 1 ELSE poolLen
    /\ tpc' = [tpc EXCEPT ![t] = "holding"]
    /\ UNCHANGED <<poolSize, lazyInit, initialized, nonPoolVars>>

\* get_connection, the finally block: the connection goes back to the pool
\* if there is room and is closed otherwise
Release(t) ==
    /\ tpc[t] = "holding"
    /\ IF poolLen < poolSize
       THEN /\ poolLen' = poolLen + 1
            /\ UNCHANGED opened
       ELSE /\ opened' = opened - 1
            /\ UNCHANGED poolLen
    /\ tpc' = [tpc EXCEPT ![t] = "start"]
    /\ UNCHANGED <<poolSize, lazyInit, initialized, nonPoolVars>>

NextPool ==
    \E t \in PoolThreads :
        \/ GetConnectionStart(t)
        \/ Initialize(t)
        \/ Acquire(t)
        \/ Release(t)

SpecPool == InitPool /\ [][NextPool]_vars

\* C13: under any interleaving of get_connection callers the number of
\* open connections (idle in the pool plus handed out) never exceeds
\* pool_size.
C13_OpenConnectionsWithinPoolSize ==
    opened <= poolSize

(***************************************************************************)
(* The threads of one process call update_model_state, mark_execution,     *)
(* update_incremental_state and clear_state on one StateManager.  Each     *)
(* call changes self.models under the lock and then runs _save_state,      *)
(* which takes the lock again, writes the .tmp file and renames it.  The   *)
(* process can crash at any point; the files stay as they are.             *)
(***************************************************************************)
SaveCalls ==
    {[kind |-> "update_model_state", name |-> n, arg |-> h] : n \in PlanNames, h \in FileHashes}
    \cup {[kind |-> "mark_execution", name |-> n, arg |-> b] : n \in PlanNames, b \in {"True", "False"}}
    \cup {[kind |-> "update_incremental_state", name |-> n, arg |-> "v1"] : n \in PlanNames}
    \cup {[kind |-> "clear_state", name |-> n, arg |-> None] : n \in PlanNames \cup {None}}

\* the change that a call makes to self.models
ApplyCall(call, store) ==
    CASE call.kind = "update_model_state" ->
            UpdateModelState(store, call.name, call.arg, <<>>, None)
      [] call.kind = "mark_execution" ->
            MarkExecution(store, call.name, call.arg = "True")
      [] call.kind = "update_incremental_state" ->
            UpdateIncrementalState(store, call.name, call.arg)
      [] call.kind = "clear_state" ->
            IF call.name # None THEN ClearState(store, call.name) ELSE ClearAllState(store)

\* the state directory found by StateManager.__init__: no state file, or
\* the file of an earlier process; a .tmp file can be left from a crash
InitialStores == {EmptyStore, UpdateModelState(EmptyStore, "a", "h1", <<>>, None)}

InitSave ==
    /\ \E persisted \in {AbsentFile} \cup {CompleteFile(st) : st \in InitialStores},
          leftover \in {AbsentFile, PartialFile(EmptyStore)} :
          /\ files = [f \in {"state", "tmp"} |-> IF f = "state" THEN persisted ELSE leftover]
          /\ models = persisted.data
          /\ expected = persisted.data
    /\ saveLock = "free"
    /\ spc = [t \in SaveThreads |-> "idle"]
    /\ slocal = [t \in SaveThreads |-> [call |-> NoCall, read |-> EmptyStore]]
    /\ saveCalls = 0
    /\ alive = TRUE
    /\ parsed = [n \in PlanNames |-> NoModel]
    /\ plan = NoPlan
    /\ changed = NoChanged
    /\ stateOps = 0
    /\ nodes = EmptyGraph
    /\ ret = NoRet
    /\ graphOps = 0
    /\ CdcIdle
    /\ RunIdle
    /\ QueryIdle
    /\ PoolIdle
    /\ ParIdle
    /\ SubstIdle
    /\ MoreIdle

nonSaveVars == <<parsed, plan, changed, stateOps, graphVars, cdcVars, runVars, queryVars, poolVars,
                 parVars, substVars, moreVars>>

\* a call enters `with self._lock` and reads self.models
CallBegin(t) ==
    /\ alive
    /\ spc[t] = "idle"
    /\ saveCalls < MaxSaveCalls
    /\ LockFree
    /\ \E call \in SaveCalls :
          /\ slocal' = [slocal EXCEPT ![t] = [call |-> call, read |-> models]]
          /\ expected' = ApplyCall(call, expected)
    /\ saveLock' = t
    /\ spc' = [spc EXCEPT ![t] = "mutating"]
    /\ saveCalls' = saveCalls + 1
    /\ UNCHANGED <<models, files, alive, nonSaveVars>>

\* the call writes self.models and leaves the lock
CallMutate(t) ==
    /\ alive
    /\ spc[t] = "mutating"
    /\ models' = ApplyCall(slocal[t].call, slocal[t].read)
    /\ saveLock' = "free"
    /\ spc' = [spc EXCEPT ![t] = "save"]
    /\ UNCHANGED <<files, slocal, expected, saveCalls, alive, nonSaveVars>>

\* _save_state: the lock is taken, data is built from self.models and the
\* temporary file is opened for writing
SaveBegin(t) ==
    /\ alive
    /\ spc[t] = "save"
    /\ LockFree
    /\ saveLock' = t
    /\ files' = [files EXCEPT ![TempFile] = PartialFile(models)]
    /\ spc' = [spc EXCEPT ![t] = "writing"]
    /\ UNCHANGED <<models, slocal, expected, saveCalls, alive, nonSaveVars>>

\* _save_state: json.dump returns and the temporary file is closed
SaveWrite(t) ==
    /\ alive
    /\ spc[t] = "writing"
    /\ files' = [files EXCEPT ![TempFile] = CompleteFile(files[TempFile].data)]
    /\ spc' = [spc EXCEPT ![t] = "written"]
    /\ UNCHANGED <<models, saveLock, slocal, expected, saveCalls, alive, nonSaveVars>>

\* _save_state: the rename, and the end of the call
SaveReplace(t) ==
    /\ alive
    /\ spc[t] = "written"
    /\ files' = Replace(files)
    /\ saveLock' = "free"
    /\ spc' = [spc EXCEPT ![t] = "idle"]
    /\ UNCHANGED <<models, slocal, expected, saveCalls, alive, nonSaveVars>>

\* the process dies; nothing of it runs any more
Crash ==
    /\ alive
    /\ alive' = FALSE
    /\ UNCHANGED <<models, files, saveLock, spc, slocal, expected, saveCalls, nonSaveVars>>

NextSave ==
    \/ \E t \in SaveThreads :
          \/ CallBegin(t)
          \/ CallMutate(t)
          \/ SaveBegin(t)
          \/ SaveWrite(t)
          \/ SaveReplace(t)
    \/ Crash

SpecSave == InitSave /\ [][NextSave]_vars

\* the three counters of a model's state
Counters(state) == <<state.execution_count, state.success_count, state.failure_count>>

\* C24: in every state of the store execution_count = success_count +
\* failure_count for every model; a mark_execution call adds one to
\* execution_count and one to success_count (success) or to failure_count
\* (failure) and leaves the third counter; update_model_state leaves the
\* three counters as they are.
C24_CountersConsistent ==
    /\ [](\A n \in PlanNames :
            models[n].execution_count = models[n].success_count + models[n].failure_count)
    /\ [][\A t \in SaveThreads :
            (spc[t] = "mutating" /\ spc'[t] = "save") =>
                LET call == slocal[t].call
                    before == Counters(models[call.name])
                    after == Counters(models'[call.name])
                IN  /\ (call.kind = "mark_execution" /\ call.arg = "True") =>
                          after = <<before[1] + 1, before[2] + 1, before[3]>>
                    /\ (call.kind = "mark_execution" /\ call.arg = "False") =>
                          after = <<before[1] + 1, before[2], before[3] + 1>>
                    /\ call.kind = "update_model_state" => after = before]_vars

\* a model after a successful and a failed execution
C24_Witness ==
    \E n \in PlanNames :
        /\ models[n].execution_count = 2
        /\ models[n].success_count = 1
        /\ models[n].failure_count = 1

\* C14: at every point of a state save, and after a crash at any of its
\* steps, the state file does not exist or holds a complete state: it is
\* never partially written.
C14_StateFileNeverPartial ==
    files["state"].exists => files["state"].complete

\* a crash while the temporary file is partially written, with the state
\* file of the previous save in place
C14_Witness ==
    /\ ~alive
    /\ files["tmp"].exists
    /\ ~files["tmp"].complete
    /\ files["state"].exists
    /\ files["state"].complete
    /\ files["state"].data # files["tmp"].data
    /\ saveCalls >= 2

\* C15: for any interleaving of the calls of several threads no update is
\* lost (self.models is what the calls give when made one after the other
\* in the order of the lock, so execution_count counts the mark_execution
\* calls), and once all calls have returned the state file holds
\* self.models.
C15_NoLostUpdateAndPersisted ==
    alive =>
        /\ (\A t \in SaveThreads : spc[t] # "mutating") => models = expected
        /\ (saveCalls > 0 /\ \A t \in SaveThreads : spc[t] = "idle") =>
              files["state"] = CompleteFile(models)

\* two mark_execution calls on one model made by two threads, which
\* have both returned
C15_Witness ==
    /\ alive
    /\ \A t \in SaveThreads : spc[t] = "idle" /\ slocal[t].call.kind = "mark_execution"
                                /\ slocal[t].call.name = "a"
    /\ saveCalls = 2
    /\ models["a"].execution_count = 2
    /\ files["state"] = CompleteFile(models)

(***************************************************************************)
(* One execute_models_async call on a graph of the models of Names, with   *)
(* ModelExecutor.execute_model as execute_func.  The tasks of a batch run  *)
(* concurrently; asyncio.gather returns when all of them have finished.    *)
(***************************************************************************)
RECURSIVE AddModels(_, _, _, _)
AddModels(g, order, deps, perm) ==
    IF order = <<>> THEN g
    ELSE AddModels(AddModel(g, Head(order), deps[Head(order)], perm), Tail(order), deps, perm)

InitPar ==
    /\ \E deps \in [Names -> SUBSET Names], perm \in Perms :
          nodes = AddModels(EmptyGraph, perm, deps, perm)
    /\ ret = NoRet
    /\ graphOps = 0
    /\ PlanIdle
    /\ CdcIdle
    /\ runPc = "idle"
    /\ failFast \in BOOLEAN
    /\ executionOrder = <<>>
    /\ levelIdx = 0
    /\ posInLevel = 0
    /\ results = <<>>
    /\ QueryIdle
    /\ PoolIdle
    /\ SaveIdle
    /\ SubstIdle
    /\ MoreIdle
    /\ pPc = "idle"
    /\ maxParallelism \in 1..MaxParallelism
    /\ pOrder = <<>>
    /\ pLevel = 0
    /\ pBatchStart = 0
    /\ task = [n \in Names |-> "none"]
    /\ pResults = [n \in Names |-> "none"]

nonParVars == <<graphVars, planVars, cdcVars, runVars, queryVars, poolVars, saveVars, substVars, moreVars>>

\* the tasks that asyncio.gather is given for the batch at offset i
ScheduleBatch(tk, level_models, i) ==
    [n \in Names |->
        IF n \in Range(Batch(level_models, i, maxParallelism)) THEN "scheduled" ELSE tk[n]]

\* execute_models_async up to the first asyncio.gather
ExecuteModelsAsyncStart ==
    /\ pPc = "idle"
    /\ \E perm \in Perms :
          LET r == TopologicalSort(nodes, perm) IN
          IF r.status # "ok"
          THEN /\ pPc' = "raised"
               /\ UNCHANGED <<pOrder, pLevel, pBatchStart, task>>
          ELSE IF Len(r.levels) = 0
          THEN /\ pPc' = "done"
               /\ UNCHANGED <<pOrder, pLevel, pBatchStart, task>>
          ELSE /\ pPc' = "gather"
               /\ pOrder' = r.levels
               /\ pLevel' = 1
               /\ pBatchStart' = 0
               /\ task' = ScheduleBatch(task, r.levels[1], 0)
    /\ UNCHANGED <<maxParallelism, pResults, nonParVars>>

\* a task starts: _execute_model_with_result calls execute_func
TaskRun(m) ==
    /\ pPc = "gather"
    /\ task[m] = "scheduled"
    /\ task' = [task EXCEPT ![m] = "running"]
    /\ UNCHANGED <<pPc, maxParallelism, pOrder, pLevel, pBatchStart, pResults, nonParVars>>

\* a task ends: the model succeeded or failed
TaskFinish(m) ==
    /\ pPc = "gather"
    /\ task[m] = "running"
    /\ \E status \in {"succeeded", "failed"} :
          task' = [task EXCEPT ![m] = status]
    /\ UNCHANGED <<pPc, maxParallelism, pOrder, pLevel, pBatchStart, pResults, nonParVars>>

\* A gather that returns as soon as one task of the batch has finished.
BatchDoneWhenAnyFinished(batch) ==
    \E i \in 1..Len(batch) : task[batch[i]] \in {"succeeded", "failed"}

\* asyncio.gather(*tasks) returns: every task of the batch has finished
BatchDone(batch) ==
    \A i \in 1..Len(batch) : task[batch[i]] \in {"succeeded", "failed"}

\* what _execute_model_with_result returns: False when execute_func raised
\* (a failed model raises with fail_fast only), True otherwise
ExecuteModelWithResult(m) ==
    IF task[m] = "failed" /\ failFast THEN "False" ELSE "True"

\* the results of the batch are stored and the next batch of the level, or
\* the first batch of the next level, is gathered
GatherReturn ==
    /\ pPc = "gather"
    /\ LET level_models == pOrder[pLevel]
           batch == Batch(level_models, pBatchStart, maxParallelism)
           i == pBatchStart + maxParallelism
       IN  /\ BatchDone(batch)
           /\ pResults' = [n \in Names |->
                             IF n \in Range(batch) THEN ExecuteModelWithResult(n)
                             ELSE pResults[n]]
           /\ IF i < Len(level_models)
              THEN /\ pBatchStart' = i
                   /\ task' = ScheduleBatch(task, level_models, i)
                   /\ UNCHANGED <<pPc, pLevel>>
              ELSE IF pLevel < Len(pOrder)
              THEN /\ pLevel' = pLevel + 1
                   /\ pBatchStart' = 0
                   /\ task' = ScheduleBatch(task, pOrder[pLevel + 1], 0)
                   /\ UNCHANGED pPc
              ELSE /\ pPc' = "done"
                   /\ UNCHANGED <<pLevel, pBatchStart, task>>
    /\ UNCHANGED <<maxParallelism, pOrder, nonParVars>>

NextPar ==
    \/ ExecuteModelsAsyncStart
    \/ \E m \in Names : TaskRun(m)
    \/ \E m \in Names : TaskFinish(m)
    \/ GatherReturn

SpecPar == InitPar /\ [][NextPar]_vars

Terminal(m) == task[m] \in {"succeeded", "failed"}

\* C16: no model of level N+1 is started (or scheduled) before every model
\* of level N has succeeded or failed.
C16_LevelBarrier ==
    \A k \in 1..Len(pOrder) : \A j \in 1..Len(pOrder) :
        (k < j /\ \E m \in Range(pOrder[j]) : task[m] # "none") =>
            \A m \in Range(pOrder[k]) : Terminal(m)

\* a model of the second level runs after the two models of the first level
C16_Witness ==
    /\ Len(pOrder) >= 2
    /\ Len(pOrder[1]) = 2
    /\ \E m \in Range(pOrder[2]) : task[m] = "running"
    /\ \E m \in Range(pOrder[1]) : task[m] = "failed"

\* the models whose execute_func has been started and has not returned
Executing == {m \in Names : task[m] \in {"scheduled", "running"}}

\* C30: at most max_parallelism models are executing at the same time, and
\* all of them are models of the level that is being executed.
C30_AtMostMaxParallelism ==
    /\ Cardinality(Executing) <= maxParallelism
    /\ pPc = "gather" => Executing \subseteq Range(pOrder[pLevel])

\* max_parallelism models run at once in a level that has more models
C30_Witness ==
    /\ pPc = "gather"
    /\ Len(pOrder[pLevel]) > maxParallelism
    /\ maxParallelism >= 2
    /\ Cardinality({m \in Names : task[m] = "running"}) = maxParallelism

\* C18: with fail_fast, once a model has failed no model of a later level
\* is started.
C18_FailFastStopsLaterLevels ==
    failFast =>
        \A k \in 1..Len(pOrder) : \A j \in 1..Len(pOrder) :
            (k < j /\ \E m \in Range(pOrder[k]) : task[m] = "failed") =>
                \A m \in Range(pOrder[j]) : task[m] = "none"

(***************************************************************************)
(* _substitute_variables on short SQL texts and on dicts of one or two     *)
(* variables.                                                              *)
(***************************************************************************)
SqlChars == {"$", "n", "m", "="}

SqlTexts == UNION {[1..k -> SqlChars] : k \in 0..MaxSqlLen}

VarNames == {<<"n">>, <<"n", "m">>}

VarValues ==
    {[type |-> "str", val |-> <<"a">>], [type |-> "str", val |-> <<"a", "'", "b">>],
     [type |-> "int", val |-> "5"], [type |-> "NoneType", val |-> "None"],
     [type |-> "bool", val |-> "true"], [type |-> "bool", val |-> "false"]}

\* the dicts: the names of the items differ
VarDicts ==
    {<<>>}
    \cup {<<[name |-> nm, value |-> v]>> : nm \in VarNames, v \in VarValues}
    \cup UNION {{<<[name |-> n1, value |-> v1], [name |-> n2, value |-> v2]>> :
                    n2 \in VarNames \ {n1}, v1 \in VarValues, v2 \in VarValues} :
                 n1 \in VarNames}

InitSubst ==
    /\ \E sql \in SqlTexts, variables \in VarDicts :
          subst = [called |-> FALSE, sql |-> sql, variables |-> variables, out |-> <<>>]
    /\ nodes = EmptyGraph
    /\ ret = NoRet
    /\ graphOps = 0
    /\ PlanIdle
    /\ CdcIdle
    /\ RunIdle
    /\ QueryIdle
    /\ PoolIdle
    /\ SaveIdle
    /\ ParIdle
    /\ MoreIdle

SubstituteVariablesCall ==
    /\ ~subst.called
    /\ subst' = [subst EXCEPT !.called = TRUE,
                              !.out = SubstituteVariables(subst.sql, subst.variables)]
    /\ UNCHANGED <<graphVars, planVars, cdcVars, runVars, queryVars, poolVars, saveVars, parVars, moreVars>>

NextSubst == SubstituteVariablesCall

SpecSubst == InitSubst /\ [][NextSubst]_vars

\* the literal that a value is to become: a quoted string with the quotes
\* doubled, an unquoted number, NULL, TRUE or FALSE
Literal(value) ==
    CASE value.type = "str" -> <<"'">> \o EscapeQuotes(value.val) \o <<"'">>
      [] value.type = "int" -> <<value.val>>
      [] value.type = "NoneType" -> <<"NULL">>
      [] value.type = "bool" -> <<IF value.val = "true" THEN "TRUE" ELSE "FALSE">>

\* C19: a SQL text that is one variable reference $id, with id the only
\* variable of the dict, becomes the literal of the type of its value.
C19_LiteralByType ==
    (subst.called /\ Len(subst.variables) = 1
        /\ subst.sql = <<"$">> \o subst.variables[1].name) =>
        subst.out = Literal(subst.variables[1].value)

\* the characters of an identifier, and the length of the longest
\* identifier that a text starts with
IsIdChar(c) == c \in {"n", "m"}

RECURSIVE IdLen(_)
IdLen(text) ==
    IF text # <<>> /\ IsIdChar(Head(text)) THEN 1 + IdLen(Tail(text)) ELSE 0

\* every $id of the text, id the longest identifier after the $, replaced by
\* the literal of the variable named id, and left as it is when there is none
RECURSIVE ByMaximalIdentifier(_, _)
ByMaximalIdentifier(text, variables) ==
    IF text = <<>> THEN <<>>
    ELSE LET k == IdLen(Tail(text)) IN
         IF Head(text) = "$" /\ k > 0
         THEN LET id == SubSeq(text, 2, 1 + k)
                  rest == SubSeq(text, 2 + k, Len(text))
                  named == {i \in 1..Len(variables) : variables[i].name = id}
              IN  IF named = {}
                  THEN <<"$">> \o id \o ByMaximalIdentifier(rest, variables)
                  ELSE FormatValue(variables[CHOOSE i \in named : TRUE].value)
                       \o ByMaximalIdentifier(rest, variables)
         ELSE <<Head(text)>> \o ByMaximalIdentifier(Tail(text), variables)

\* C37: _substitute_variables replaces every $id, id the maximal identifier
\* after the $, by the literal of the variable named exactly id and leaves it
\* untouched when no variable has that name.
C37_MaximalIdentifierSubstituted ==
    subst.called => subst.out = ByMaximalIdentifier(subst.sql, subst.variables)

(***************************************************************************)
(* Materializer.materialize on a model with materialized = cdc: the         *)
(* strategy is chosen by MaterializationStrategyFactory.create_strategy and *)
(* CDCMaterialization.materialize loads or merges the model's table.  A row *)
(* of the table has the columns of the SELECT (the unique key), the change  *)
(* type column and __CDC_TIMESTAMP.  The SELECT returns at most one row for *)
(* a key.                                                                   *)
(***************************************************************************)
MergeKeys == {1, 2}

\* the values of the change type column; None is SQL NULL
MergeOps == {"I", "U", "D", "E", None}

\* what the SELECT returns: key -> change type, for the keys it has rows for
Sources == UNION {[S -> MergeOps] : S \in SUBSET MergeKeys}

\* the values of ModelConfig.materialized
MaterializedTypes == {"cdc", "CDC", "view", "table", "temp_table", "incremental",
                      "incremental_table", "snapshot"}

\* str.lower
Lower(str) == IF str = "CDC" THEN "cdc" ELSE str

\* create_strategy: the materialization type after lower() and the alias
NormalizedType(materialization_type) ==
    LET t == Lower(materialization_type)
    IN  IF t = "incremental_table" THEN "incremental" ELSE t

\* create_strategy: the class of the strategy returned (a cached instance is
\* an instance of the same class), or the error raised
CreateStrategy(materialization_type) ==
    LET t == NormalizedType(materialization_type)
    IN  CASE t = "view" -> "ViewMaterialization"
          [] t = "table" -> "TableMaterialization"
          [] t = "temp_table" -> "TempTableMaterialization"
          [] t = "incremental" -> "IncrementalMaterialization"
          [] t = "cdc" -> "CDCMaterialization"
          [] OTHER -> "MaterializationError"

\* COALESCE(change_type_column, 'U')
Coalesce(op) == IF op = None THEN "U" ELSE op

\* CREATE TABLE model AS SELECT *, 'I', CURRENT_TIMESTAMP() FROM (select)
CreateTableAsSelect(src, now) ==
    {[key |-> k, op |-> "I", cdc_timestamp |-> now] : k \in DOMAIN src}

\* MERGE INTO model USING source ON the unique key:
\*   WHEN MATCHED AND op = 'D' THEN DELETE
\*   WHEN MATCHED AND op IN ('U', 'I') THEN UPDATE SET *
\*   WHEN NOT MATCHED AND op != 'D' THEN INSERT *
MergeInto(t, src, now) ==
    LET Matched(r) == r.key \in DOMAIN src
        SourceRow(k) == [key |-> k, op |-> Coalesce(src[k]), cdc_timestamp |-> now]
        deleted == {r \in t : Matched(r) /\ Coalesce(src[r.key]) = "D"}
        updated == {r \in t : Matched(r) /\ Coalesce(src[r.key]) \in {"U", "I"}}
        inserted == {k \in DOMAIN src : /\ \A r \in t : r.key # k
                                        /\ Coalesce(src[k]) # "D"}
    IN  (t \ (deleted \cup updated))
            \cup {SourceRow(r.key) : r \in updated}
            \cup {SourceRow(k) : k \in inserted}

InitMerge ==
    /\ mzType \in {"cdc", "CDC"}
    /\ mzTarget = {}
    /\ mzExists = FALSE
    /\ mzClock = 0
    /\ mzPrev = {}
    /\ mzSource = <<>>
    /\ mzResult = "none"
    /\ strategyCache = {}
    /\ nodes = EmptyGraph
    /\ ret = NoRet
    /\ graphOps = 0
    /\ PlanIdle
    /\ CdcIdle
    /\ RunIdle
    /\ QueryIdle
    /\ PoolIdle
    /\ SaveIdle
    /\ ParIdle
    /\ SubstIdle
    /\ TxIdle
    /\ ClIdle
    /\ GetIdle
    /\ HealthIdle
    /\ LateIdle

\* Materializer.materialize -> create_strategy -> CDCMaterialization.materialize.
\* checkFails: the query of _check_table_exists raises, and the check
\* answers False; queryFails: a statement of the load or of the merge raises.
MaterializerMaterialize ==
    /\ mzClock < MaxMerges
    /\ CreateStrategy(mzType) = "CDCMaterialization"
    /\ strategyCache' = strategyCache \cup {NormalizedType(mzType)}
    /\ \E src \in Sources, checkFails \in BOOLEAN, queryFails \in BOOLEAN :
          LET now == mzClock + 1
              table_exists == mzExists /\ ~checkFails
          IN  /\ mzSource' = src
              /\ IF ~table_exists
                 THEN IF queryFails \/ mzExists
                      THEN /\ mzResult' = "MaterializationError"
                           /\ UNCHANGED <<mzTarget, mzExists>>
                      ELSE /\ mzResult' = "initial_load"
                           /\ mzTarget' = CreateTableAsSelect(src, now)
                           /\ mzExists' = TRUE
                 ELSE IF queryFails
                      THEN /\ mzResult' = "MaterializationError"
                           /\ UNCHANGED <<mzTarget, mzExists>>
                      ELSE /\ mzResult' = "merged"
                           /\ mzTarget' = MergeInto(mzTarget, src, now)
                           /\ UNCHANGED mzExists
    /\ mzPrev' = mzTarget
    /\ mzClock' = mzClock + 1
    /\ UNCHANGED <<mzType, graphVars, planVars, cdcVars, runVars, queryVars, poolVars,
                   saveVars, parVars, substVars, txVars, clVars, getVars,
                   healthVars, lateVars>>

NextMerge == MaterializerMaterialize

SpecMerge == InitMerge /\ [][NextMerge]_vars

\* the row has an obsolete_date and it is set
Retired(r) == "obsolete_date" \in DOMAIN r /\ r.obsolete_date # NULL

\* the row of the target that holds the version r of its key
VersionsOf(r) == {x \in mzTarget : x.key = r.key /\ x.cdc_timestamp = r.cdc_timestamp}

\* C22: after a merge of a cdc model through the Materializer on an existing
\* target, every row that the target had before is still in the target
\* (none is removed, none is overwritten), and the prior row of a key that
\* the SELECT returned with D or with U is there as a retired row.
C22_DispatchedCdcRetires ==
    mzResult = "merged" =>
        \A r \in mzPrev :
            /\ VersionsOf(r) # {}
            /\ (r.key \in DOMAIN mzSource /\ mzSource[r.key] \in {"D", "U"}) =>
                  \E x \in VersionsOf(r) : Retired(x)

(***************************************************************************)
(* SnowflakeExecutor.execute_transaction: one call with a list of queries.  *)
(* Every cursor.execute can succeed or raise.  txIssued holds the           *)
(* statements in the order they were given to cursor.execute: "SET",        *)
(* "BEGIN", "QUERY" with the index of the query, "COMMIT", "ROLLBACK".      *)
(***************************************************************************)
Issue(stmt, idx, ok) == Append(txIssued, [stmt |-> stmt, idx |-> idx, ok |-> ok])

InitTx ==
    /\ txPc = "idle"
    /\ txQueries \in 0..MaxTxLen
    /\ txHasVars \in BOOLEAN
    /\ txIssued = <<>>
    /\ txResult = "none"
    /\ nodes = EmptyGraph
    /\ ret = NoRet
    /\ graphOps = 0
    /\ PlanIdle
    /\ CdcIdle
    /\ RunIdle
    /\ QueryIdle
    /\ PoolIdle
    /\ SaveIdle
    /\ ParIdle
    /\ SubstIdle
    /\ MzIdle
    /\ ClIdle
    /\ GetIdle
    /\ HealthIdle
    /\ LateIdle

nonTxVars == <<graphVars, planVars, cdcVars, runVars, queryVars, poolVars, saveVars, parVars,
               substVars, mzVars, clVars, getVars, healthVars,
               lateVars>>

\* pool.get_connection() and conn.cursor(): when one of them raises, the
\* outer except raises FrameworkConnectionError
ExecuteTransactionCall ==
    /\ txPc = "idle"
    /\ \E connected \in BOOLEAN :
          IF connected
          THEN /\ txPc' = IF txHasVars THEN "set" ELSE "begin"
               /\ UNCHANGED txResult
          ELSE /\ txPc' = "finished"
               /\ txResult' = "raised"
    /\ UNCHANGED <<txQueries, txHasVars, txIssued, nonTxVars>>

\* _set_snowflake_session_vars: a SET that raises is logged and ignored
TxSetSessionVars ==
    /\ txPc = "set"
    /\ \E ok \in BOOLEAN : txIssued' = Issue("SET", 0, ok)
    /\ txPc' = "begin"
    /\ UNCHANGED <<txQueries, txHasVars, txResult, nonTxVars>>

\* a cursor.execute that raises leaves the try block for its except block
AfterExecuteIgnoreFailure(ok) == "queries"

AfterExecute(ok) == IF ok THEN "queries" ELSE "except"

\* cursor.execute("BEGIN TRANSACTION")
TxBegin ==
    /\ txPc = "begin"
    /\ \E ok \in BOOLEAN :
          /\ txIssued' = Issue("BEGIN", 0, ok)
          /\ txPc' = AfterExecute(ok)
    /\ UNCHANGED <<txQueries, txHasVars, txResult, nonTxVars>>

\* the number of queries given to cursor.execute so far
QueriesIssued == Cardinality({i \in 1..Len(txIssued) : txIssued[i].stmt = "QUERY"})

\* for i, sql in enumerate(queries): cursor.execute(sql)
TxQuery ==
    /\ txPc = "queries"
    /\ QueriesIssued < txQueries
    /\ \E ok \in BOOLEAN :
          /\ txIssued' = Issue("QUERY", QueriesIssued + 1, ok)
          /\ txPc' = AfterExecute(ok)
    /\ UNCHANGED <<txQueries, txHasVars, txResult, nonTxVars>>

\* cursor.execute("COMMIT") after the loop
TxCommit ==
    /\ txPc = "queries"
    /\ QueriesIssued = txQueries
    /\ \E ok \in BOOLEAN :
          /\ txIssued' = Issue("COMMIT", 0, ok)
          /\ IF ok
             THEN txPc' = "finished" /\ txResult' = "returned"
             ELSE txPc' = "except" /\ UNCHANGED txResult
    /\ UNCHANGED <<txQueries, txHasVars, nonTxVars>>

\* except Exception: cursor.execute("ROLLBACK"), raise FrameworkConnectionError;
\* when the ROLLBACK raises, its exception reaches the outer except, which
\* raises FrameworkConnectionError as well
TxRollback ==
    /\ txPc = "except"
    /\ \E ok \in BOOLEAN : txIssued' = Issue("ROLLBACK", 0, ok)
    /\ txPc' = "finished"
    /\ txResult' = "raised"
    /\ UNCHANGED <<txQueries, txHasVars, nonTxVars>>

NextTx ==
    \/ ExecuteTransactionCall
    \/ TxSetSessionVars
    \/ TxBegin
    \/ TxQuery
    \/ TxCommit
    \/ TxRollback

SpecTx == InitTx /\ [][NextTx]_vars

\* the statements issued, without the SET statements of the session variables
IssuedStmts ==
    LET NotSet(x) == x.stmt # "SET"
        sel == SelectSeq(txIssued, NotSet)
    IN  [i \in 1..Len(sel) |-> <<sel[i].stmt, sel[i].idx>>]

\* how often the statement was issued
TimesIssued(stmt) == Cardinality({i \in 1..Len(txIssued) : txIssued[i].stmt = stmt})

\* the query i was issued and it failed
QueryFailed(i) ==
    \E j \in 1..Len(txIssued) :
        txIssued[j].stmt = "QUERY" /\ txIssued[j].idx = i /\ ~txIssued[j].ok

\* BEGIN succeeded and every query of the list was issued and succeeded
EveryQuerySucceeded ==
    /\ QueriesIssued = txQueries
    /\ \A i \in 1..txQueries : ~QueryFailed(i)
    /\ \E j \in 1..Len(txIssued) : txIssued[j].stmt = "BEGIN" /\ txIssued[j].ok

\* the statements BEGIN, 1, ..., k
Begin == <<"BEGIN", 0>>
Commit == <<"COMMIT", 0>>
Rollback == <<"ROLLBACK", 0>>
BeginThen(k) == <<Begin>> \o [i \in 1..k |-> <<"QUERY", i>>]

\* C23 as the spec states it: a finished call that obtained its connection
\* has issued BEGIN, then the
\* queries in list order; if query i failed the call issued nothing after
\* it but ROLLBACK, never COMMIT, and raised; if every query succeeded it
\* issued COMMIT exactly once and no ROLLBACK.
C23_AsStated ==
    (txPc = "finished" /\ txIssued # <<>>) =>
        /\ IssuedStmts[1] = Begin
        /\ \A i \in 1..txQueries :
              QueryFailed(i) =>
                /\ IssuedStmts = BeginThen(i) \o <<Rollback>>
                /\ txResult = "raised"
        /\ EveryQuerySucceeded =>
              /\ IssuedStmts = BeginThen(txQueries) \o <<Commit>>

\* C23: a finished call that obtained its connection has issued BEGIN
\* first; if BEGIN failed it issued then only ROLLBACK and raised; if query
\* i failed it issued BEGIN, the queries 1..i in list order, then ROLLBACK,
\* never COMMIT, and raised; if every query succeeded it issued COMMIT
\* exactly once, after the queries in list order, and it issued ROLLBACK
\* only when that COMMIT failed, in which case it raised.
C23_TransactionProtocol ==
    (txPc = "finished" /\ txIssued # <<>>) =>
        /\ IssuedStmts[1] = Begin
        /\ ~txIssued[Len(txIssued) - Len(IssuedStmts) + 1].ok =>
              IssuedStmts = <<Begin, Rollback>> /\ txResult = "raised"
        /\ \A i \in 1..txQueries :
              QueryFailed(i) =>
                /\ IssuedStmts = BeginThen(i) \o <<Rollback>>
                /\ txResult = "raised"
        /\ EveryQuerySucceeded =>
              /\ TimesIssued("COMMIT") = 1
              /\ IF txIssued[Len(txIssued)].stmt = "COMMIT"
                 THEN /\ IssuedStmts = BeginThen(txQueries) \o <<Commit>>
                      /\ txIssued[Len(txIssued)].ok
                      /\ txResult = "returned"
                 ELSE /\ IssuedStmts = BeginThen(txQueries) \o <<Commit, Rollback>>
                      /\ ~txIssued[Len(txIssued) - 1].ok
                      /\ txResult = "raised"

\* a call with two queries of which the second failed
C23_Witness ==
    /\ txPc = "finished"
    /\ txQueries >= 2
    /\ QueryFailed(2)
    /\ txResult = "raised"

(***************************************************************************)
(* The warehouse statements of one PolarsCDCMaterialization.materialize     *)
(* call and their failures.  Every execute_query can return or raise.  The  *)
(* temporary tables are numbered: 0 is the staging table of                 *)
(* _process_cdc_with_retirement, k >= 1 is the table of the k-th            *)
(* _insert_records call.  clPending is the exception that is propagating    *)
(* through the finally blocks.                                              *)
(***************************************************************************)
StagingTable == 0

\* the statements of _process_cdc_chunk_with_retirement for a chunk with
\* (or without) I rows, U rows and D or E rows
ChunkSteps(hasI, hasU, hasD) ==
    (IF hasI THEN <<"insert">> ELSE <<>>)
        \o (IF hasU THEN <<"retire", "insert">> ELSE <<>>)
        \o (IF hasD THEN <<"retire">> ELSE <<>>)

ChunkPlans == {ChunkSteps(i, u, d) : i \in BOOLEAN, u \in BOOLEAN, d \in BOOLEAN}

\* A DROP in a finally block whose exception is not caught.
AfterDropRaising(pending, ok) == IF ok THEN pending ELSE "drop"

\* finally: try: DROP TABLE IF EXISTS ... except: pass.  The exception of
\* the DROP is dropped and the exception that was propagating goes on.
AfterDrop(pending, ok) == pending

InitCleanup ==
    /\ clPc = "idle"
    /\ clChunks \in 0..MaxStreamChunks
    /\ clSteps = <<>>
    /\ clSeq = 0
    /\ clCreated = {}
    /\ clDropIssued = {}
    /\ clPending = "none"
    /\ clFailures = <<>>
    /\ clResult = NoCleanupResult
    /\ nodes = EmptyGraph
    /\ ret = NoRet
    /\ graphOps = 0
    /\ PlanIdle
    /\ CdcIdle
    /\ RunIdle
    /\ QueryIdle
    /\ PoolIdle
    /\ SaveIdle
    /\ ParIdle
    /\ SubstIdle
    /\ MzIdle
    /\ TxIdle
    /\ GetIdle
    /\ HealthIdle
    /\ LateIdle

nonClVars == <<graphVars, planVars, cdcVars, runVars, queryVars, poolVars, saveVars, parVars,
               substVars, mzVars, txVars, getVars, healthVars,
               lateVars>>

\* the statement raised: the exception starts to propagate
Raise(stmt) ==
    /\ clPending' = stmt
    /\ clFailures' = Append(clFailures, stmt)

\* materialize with the table absent: _initial_load issues CREATE TABLE and
\* streams the SELECT
InitialLoadStart ==
    /\ clPc = "idle"
    /\ \E ok \in BOOLEAN :
          IF ok
          THEN clPc' = "fetch_initial" /\ UNCHANGED <<clPending, clFailures>>
          ELSE clPc' = "wrap" /\ Raise("create_table")
    /\ UNCHANGED <<clChunks, clSteps, clSeq, clCreated, clDropIssued, clResult, nonClVars>>

\* materialize with the table present: _process_cdc_with_retirement issues
\* CREATE TEMPORARY TABLE staging and SELECT COUNT(*)
ProcessCdcStart ==
    /\ clPc = "idle"
    /\ \E created \in BOOLEAN, counted \in BOOLEAN :
          IF ~created
          THEN /\ clPc' = "drop_staging" /\ Raise("create_staging")
               /\ UNCHANGED clCreated
          ELSE /\ clCreated' = clCreated \cup {StagingTable}
               /\ IF ~counted
                  THEN clPc' = "drop_staging" /\ Raise("count")
                  ELSE /\ clPc' = IF clChunks = 0 THEN "drop_staging" ELSE "fetch"
                       /\ UNCHANGED <<clPending, clFailures>>
    /\ UNCHANGED <<clChunks, clSteps, clSeq, clDropIssued, clResult, nonClVars>>

\* _stream_query_chunks(_from_table): the SELECT ... LIMIT ... OFFSET of the
\* next chunk; the stream ends with an empty or a short chunk
FetchChunk ==
    /\ clPc \in {"fetch", "fetch_initial"}
    /\ LET end == IF clPc = "fetch" THEN "drop_staging" ELSE "wrap" IN
       \E ok \in BOOLEAN :
          IF ~ok
          THEN /\ clPc' = end /\ Raise("fetch")
               /\ UNCHANGED <<clChunks, clSteps>>
          ELSE IF clChunks = 0
          THEN /\ clPc' = end
               /\ UNCHANGED <<clChunks, clSteps, clPending, clFailures>>
          ELSE /\ clChunks' = clChunks - 1
               /\ \E steps \in (IF clPc = "fetch" THEN ChunkPlans ELSE {<<"insert">>}) :
                     clSteps' = steps
               /\ clPc' = IF clPc = "fetch" THEN "chunk" ELSE "chunk_initial"
               /\ UNCHANGED <<clPending, clFailures>>
    /\ UNCHANGED <<clSeq, clCreated, clDropIssued, clResult, nonClVars>>

\* the pc of the stream that the chunk belongs to
StreamOf(pc) == IF pc \in {"chunk", "fetch"} THEN "fetch" ELSE "fetch_initial"
EndOf(pc) == IF pc \in {"chunk", "fetch"} THEN "drop_staging" ELSE "wrap"

\* the chunk has made its statements: the loop asks for the next chunk; a
\* last chunk with fewer rows than chunk_size ends the stream without a
\* further SELECT
ChunkDone ==
    /\ clPc \in {"chunk", "chunk_initial"}
    /\ clSteps = <<>>
    /\ \E short \in BOOLEAN :
          clPc' = IF clChunks = 0 /\ short THEN EndOf(clPc) ELSE StreamOf(clPc)
    /\ UNCHANGED <<clChunks, clSteps, clSeq, clCreated, clDropIssued, clPending, clFailures,
                   clResult, nonClVars>>

\* UPDATE ... SET obsolete_date of _process_cdc_chunk_with_retirement
RetireStatement ==
    /\ clPc = "chunk"
    /\ clSteps # <<>> /\ Head(clSteps) = "retire"
    /\ \E ok \in BOOLEAN :
          IF ok
          THEN /\ clSteps' = Tail(clSteps)
               /\ UNCHANGED <<clPc, clPending, clFailures>>
          ELSE /\ clPc' = "drop_staging" /\ Raise("retire")
               /\ UNCHANGED clSteps
    /\ UNCHANGED <<clChunks, clSeq, clCreated, clDropIssued, clResult, nonClVars>>

\* _insert_records: CREATE TEMPORARY TABLE, INSERT INTO the temporary table,
\* INSERT INTO the model's table; the first that raises ends the try block.
\* Then finally: the DROP of the temporary table.
InsertRecordsCall ==
    /\ clPc \in {"chunk", "chunk_initial"}
    /\ clSteps # <<>> /\ Head(clSteps) = "insert"
    /\ clSeq' = clSeq + 1
    /\ clDropIssued' = clDropIssued \cup {clSeq + 1}
    /\ \E failed \in {"none", "create_temp", "insert_temp", "copy"}, dropped \in BOOLEAN :
          /\ clCreated' = IF failed = "create_temp" THEN clCreated
                           ELSE clCreated \cup {clSeq + 1}
          /\ LET pending == AfterDrop(failed, dropped) IN
             IF pending = "none"
             THEN /\ clSteps' = Tail(clSteps)
                  /\ clFailures' = IF dropped THEN clFailures ELSE Append(clFailures, "drop")
                  /\ UNCHANGED <<clPc, clPending>>
             ELSE /\ clPc' = EndOf(clPc)
                  /\ clPending' = pending
                  /\ clFailures' = (IF failed = "none" THEN clFailures
                                     ELSE Append(clFailures, failed))
                                    \o (IF dropped THEN <<>> ELSE <<"drop">>)
                  /\ UNCHANGED clSteps
    /\ UNCHANGED <<clChunks, clResult, nonClVars>>

\* finally of _process_cdc_with_retirement: the DROP of the staging table
DropStaging ==
    /\ clPc = "drop_staging"
    /\ clDropIssued' = clDropIssued \cup {StagingTable}
    /\ \E ok \in BOOLEAN :
          /\ clPending' = AfterDrop(clPending, ok)
          /\ clFailures' = IF ok THEN clFailures ELSE Append(clFailures, "drop")
    /\ clPc' = "wrap"
    /\ UNCHANGED <<clChunks, clSteps, clSeq, clCreated, clResult, nonClVars>>

\* materialize returns the result, or its except block raises
\* MaterializationError with context error = str(e)
MaterializeEnd ==
    /\ clPc = "wrap"
    /\ clResult' = IF clPending = "none"
                    THEN [status |-> "returned", cause |-> "none"]
                    ELSE [status |-> "MaterializationError", cause |-> clPending]
    /\ clPc' = "done"
    /\ UNCHANGED <<clChunks, clSteps, clSeq, clCreated, clDropIssued, clPending, clFailures,
                   nonClVars>>

NextCleanup ==
    \/ InitialLoadStart
    \/ ProcessCdcStart
    \/ FetchChunk
    \/ ChunkDone
    \/ RetireStatement
    \/ InsertRecordsCall
    \/ DropStaging
    \/ MaterializeEnd

SpecCleanup == InitCleanup /\ [][NextCleanup]_vars

\* the statements other than a DROP that raised
OriginalFailures == LET NotDrop(x) == x # "drop" IN SelectSeq(clFailures, NotDrop)

\* C26: when materialize has returned or raised, a DROP was issued for
\* every staging table and every temporary insert table that was created;
\* materialize raises exactly when a statement other than a DROP raised,
\* and the error carries that statement's exception as its cause, also
\* when a DROP raised.
C26_TempTablesDroppedCausePreserved ==
    clPc = "done" =>
        /\ clCreated \subseteq clDropIssued
        /\ (clResult.status = "MaterializationError") <=> (OriginalFailures # <<>>)
        /\ OriginalFailures # <<>> => clResult.cause = OriginalFailures[1]
        /\ clResult.cause # "drop"

\* an insert into the model's table failed, the DROP of the temporary table
\* and the DROP of the staging table failed too
C26_Witness ==
    /\ clPc = "done"
    /\ clFailures = <<"copy", "drop", "drop">>
    /\ clCreated = {StagingTable, 1}
    /\ clResult.status = "MaterializationError"

(***************************************************************************)
(* get_model_state and the objects behind StateManager.models.  The dict    *)
(* maps a name to a ModelState object; update_model_state, mark_execution   *)
(* and update_incremental_state change the object of an existing entry in   *)
(* place and create an object for a missing entry; clear_state removes the  *)
(* entry.  Every call runs under the lock, so the calls of several threads  *)
(* happen one after the other in some order.                                *)
(***************************************************************************)
\* the dict as values: name -> the fields of its object, NoState if absent
StoreView(heap, store) ==
    [n \in PlanNames |-> IF store[n] = 0 THEN NoState ELSE heap[store[n]]]

\* A get_model_state that returns a copy of the entry's object.
GetModelStateCopy(store, next, name) == IF store[name] = 0 THEN 0 ELSE next

\* get_model_state: self.models.get(model_name), the object of the entry
GetModelStateObject(store, next, name) == store[name]

InitGet ==
    /\ GetIdle
    /\ nodes = EmptyGraph
    /\ ret = NoRet
    /\ graphOps = 0
    /\ PlanIdle
    /\ CdcIdle
    /\ RunIdle
    /\ QueryIdle
    /\ PoolIdle
    /\ SaveIdle
    /\ ParIdle
    /\ SubstIdle
    /\ MzIdle
    /\ TxIdle
    /\ ClIdle
    /\ HealthIdle
    /\ LateIdle

nonGetVars == <<graphVars, planVars, cdcVars, runVars, queryVars, poolVars, saveVars, parVars,
                substVars, mzVars, txVars, clVars, healthVars,
               lateVars>>

\* a call of a thread on the StateManager: the entries that exist before
\* and after keep their object, a new entry gets a new object, a cleared
\* entry leaves the dict (its object stays with whoever holds it)
StoreCall ==
    /\ gOps < MaxGetOps
    /\ \E call \in SaveCalls :
          LET view == StoreView(gHeap, gStore)
              after == ApplyCall(call, view)
              created == {n \in PlanNames : gStore[n] = 0 /\ after[n].exists}
          IN  /\ Cardinality(created) <= 1
              /\ gStore' = [n \in PlanNames |->
                               IF n \in created THEN gNext
                               ELSE IF ~after[n].exists THEN 0
                               ELSE gStore[n]]
              /\ gHeap' = [o \in DOMAIN gHeap |->
                              IF \E n \in PlanNames : gStore'[n] = o
                              THEN after[CHOOSE n \in PlanNames : gStore'[n] = o]
                              ELSE gHeap[o]]
              /\ gNext' = IF created = {} THEN gNext ELSE gNext + 1
              /\ gExpected' = ApplyCall(call, gExpected)
    /\ gOps' = gOps + 1
    /\ UNCHANGED <<gHandle, gSnapshot, gCallerChanged, nonGetVars>>

\* get_model_state(name)
GetModelStateCall ==
    /\ gOps < MaxGetOps
    /\ \E name \in PlanNames :
          LET obj == GetModelStateObject(gStore, gNext, name) IN
          /\ gHandle' = obj
          /\ gSnapshot' = IF gStore[name] = 0 THEN NoState ELSE gHeap[gStore[name]]
          /\ IF obj = 0 \/ obj = gStore[name]
             THEN UNCHANGED <<gHeap, gNext>>
             ELSE /\ gHeap' = [gHeap EXCEPT ![obj] = gHeap[gStore[name]]]
                  /\ gNext' = gNext + 1
    /\ gCallerChanged' = FALSE
    /\ gOps' = gOps + 1
    /\ UNCHANGED <<gStore, gExpected, nonGetVars>>

\* the caller changes the record it was given: state.mark_execution(True)
CallerMarksExecution ==
    /\ gOps < MaxGetOps
    /\ gHandle # 0
    /\ gHeap' = [gHeap EXCEPT ![gHandle] = MarkExecutionOn(gHeap[gHandle], TRUE)]
    /\ gCallerChanged' = TRUE
    /\ gOps' = gOps + 1
    /\ UNCHANGED <<gStore, gNext, gHandle, gSnapshot, gExpected, nonGetVars>>

NextGet ==
    \/ StoreCall
    \/ GetModelStateCall
    \/ CallerMarksExecution

SpecGet == InitGet /\ [][NextGet]_vars

\* C28: the record that get_model_state returned is a copy: as long as the
\* caller has not changed it, it has the fields it had when it was
\* returned, whatever calls were made on the StateManager since; and the
\* store holds what the calls on the StateManager made it, whatever the
\* caller did to the record.
C28_GetReturnsCopy ==
    /\ (gHandle # 0 /\ ~gCallerChanged) => gHeap[gHandle] = gSnapshot
    /\ StoreView(gHeap, gStore) = gExpected

(***************************************************************************)
(* get_connection with its health check, for one caller after the other on  *)
(* a pool with lazy_init.  The connections are numbered in the order of     *)
(* their creation.  A health check (SELECT 1) of a connection can fail at   *)
(* any time; _create_connection can raise.                                  *)
(***************************************************************************)
\* finally of get_connection: `if conn:` with the connection it names; the
\* connection goes to the pool if there is room and is closed otherwise
ReturnToPool(pool, closed, conn) ==
    IF conn = 0 THEN [pool |-> pool, closed |-> closed]
    ELSE IF Len(pool) < hPoolSize
         THEN [pool |-> Append(pool, conn), closed |-> closed]
         ELSE [pool |-> pool, closed |-> closed \cup {conn}]

\* the pool after initialize: empty with lazy_init, and otherwise filled
\* with the connections that could be created, at least one
InitHealth ==
    /\ hPoolSize \in 1..MaxPoolSize
    /\ \E n \in 0..hPoolSize :
          /\ hPool = [i \in 1..n |-> i]
          /\ hNextConn = n + 1
    /\ hInUse = 0
    /\ hFailed = {}
    /\ hClosed = {}
    /\ hLast = "none"
    /\ nodes = EmptyGraph
    /\ ret = NoRet
    /\ graphOps = 0
    /\ PlanIdle
    /\ CdcIdle
    /\ RunIdle
    /\ QueryIdle
    /\ PoolIdle
    /\ SaveIdle
    /\ ParIdle
    /\ SubstIdle
    /\ MzIdle
    /\ TxIdle
    /\ ClIdle
    /\ GetIdle
    /\ LateIdle

nonHealthVars == <<graphVars, planVars, cdcVars, runVars, queryVars, poolVars, saveVars, parVars,
                   substVars, mzVars, txVars, clVars, getVars, lateVars>>

\* get_connection up to its yield: a connection is taken from the pool or
\* created; it is checked; one that fails the check is closed and
\* _create_connection is called for its replacement.  An exception runs
\* the finally block with the connection that conn names at that point.
GetConnectionEnter ==
    /\ hInUse = 0
    /\ \E created \in BOOLEAN, healthy \in BOOLEAN, replaced \in BOOLEAN :
          LET fromPool == hPool # <<>>
              pool1 == IF fromPool THEN Tail(hPool) ELSE hPool
              conn == IF fromPool THEN Head(hPool) ELSE hNextConn
              next1 == IF fromPool THEN hNextConn ELSE hNextConn + 1
          IN  IF ~fromPool /\ (~created \/ hNextConn > MaxConns)
              THEN \* _create_connection raised: conn is None
                   /\ hLast' = "raised"
                   /\ UNCHANGED <<hPool, hInUse, hFailed, hClosed, hNextConn>>
              ELSE IF healthy
              THEN /\ hLast' = "passed"
                   /\ hInUse' = conn
                   /\ hPool' = pool1
                   /\ hNextConn' = next1
                   /\ UNCHANGED <<hFailed, hClosed>>
              ELSE IF replaced /\ next1 <= MaxConns
              THEN /\ hLast' = "replacement"
                   /\ hInUse' = next1
                   /\ hPool' = pool1
                   /\ hNextConn' = next1 + 1
                   /\ hFailed' = hFailed \cup {conn}
                   /\ hClosed' = hClosed \cup {conn}
              ELSE \* the replacement could not be created
                   LET r == ReturnToPool(pool1, hClosed \cup {conn}, conn) IN
                   /\ hLast' = "raised"
                   /\ hPool' = r.pool
                   /\ hClosed' = r.closed
                   /\ hFailed' = hFailed \cup {conn}
                   /\ hNextConn' = next1
                   /\ UNCHANGED hInUse
    /\ UNCHANGED <<hPoolSize, nonHealthVars>>

\* the with block ends: finally of get_connection
GetConnectionExit ==
    /\ hInUse # 0
    /\ LET r == ReturnToPool(hPool, hClosed, hInUse) IN
       /\ hPool' = r.pool
       /\ hClosed' = r.closed
    /\ hInUse' = 0
    /\ UNCHANGED <<hPoolSize, hFailed, hNextConn, hLast, nonHealthVars>>

NextHealth ==
    \/ GetConnectionEnter
    \/ GetConnectionExit

SpecHealth == InitHealth /\ [][NextHealth]_vars

\* C29: the connection that get_connection yields passed the health check
\* of this acquisition or was created to replace one that failed it; no
\* connection that failed a health check is in the idle pool, also after a
\* get_connection whose replacement could not be created.
C29_UnhealthyNeverPooled ==
    /\ hInUse # 0 => (hLast \in {"passed", "replacement"} /\ hInUse \notin hFailed)
    /\ \A i \in 1..Len(hPool) : hPool[i] \notin hFailed

(***************************************************************************)
(* IncrementalMaterialization (materialization.py) called by               *)
(* ModelExecutor.execute_model under the name _get_full_table_name returns. *)
(* A name is the sequence of its dotted parts.  The database holds the      *)
(* tables of iCatalog; information_schema.tables has one row per table of   *)
(* the database, whose table_name column is the identifier of the table     *)
(* alone.  A time is <<>> (None, NULL) or <<t>>.                            *)
(***************************************************************************)
\* str.upper() of one part of a name
Upper(part) ==
    CASE part = "t" -> "T"
      [] part = "bronze" -> "BRONZE"
      [] OTHER -> part

UpperName(name) == [i \in 1..Len(name) |-> Upper(name[i])]

\* the schema of the session
SessionSchema == "SCH"

\* _get_full_table_name(model_name)
GetFullTableName(config, model_name) ==
    LET table == Upper(model_name[Len(model_name)]) IN
    CASE config = "none" -> model_name
      [] config = "database_schema" -> <<"DB", "SCH", table>>
      [] config = "schema" -> <<"SCH", table>>
      [] OTHER -> <<table>>

\* the table that the warehouse resolves a name in a statement to
Resolve(name) ==
    [schema |-> IF Len(name) >= 2 THEN Upper(name[Len(name) - 1]) ELSE SessionSchema,
     table |-> Upper(name[Len(name)])]

\* _check_table_exists: COUNT(*) of the rows of information_schema.tables
\* with table_name = '{table_name.upper()}'; False when the query raises
CheckTableExists(catalog, table_name, ok) ==
    ok /\ \E row \in catalog : <<row.table>> = UpperName(table_name)

\* Python truth value of a time
TimeTruthy(t) == t # <<>> /\ t[1] # 0

\* the status that the strategy reports on an existing table
IncrementalStatus(strategy) ==
    CASE strategy = "time" -> "updated"
      [] strategy = "unique_key" -> "merged"
      [] OTHER -> "appended"

\* A time strategy that writes last_processed_time whatever the statement did.
StateAfterAlways(before, failed, now) == <<now>>

\* the incremental state after the call: update_incremental_state is reached
\* only when no statement raised
StateAfter(before, failed, now) == IF failed THEN before ELSE <<now>>

Models == {<<"t">>, <<"bronze", "t">>}
Configs == {"none", "database_schema", "schema", "no_schema"}
Schemas == {"SCH", "BRONZE"}
MaxTimes == {<<>>, <<0>>, <<1>>}

InitIncr ==
    /\ iStrategy \in {"time", "unique_key", "append"}
    /\ iModel \in Models
    /\ iConfig \in Configs
    /\ iHasState \in BOOLEAN
    /\ iCatalog \in SUBSET [schema : Schemas, table : {"T"}]
    /\ iLastTime = <<>>
    /\ iClock = 0
    /\ iOkRun = 0
    /\ iLast = NoMaterialization
    /\ nodes = EmptyGraph
    /\ ret = NoRet
    /\ graphOps = 0
    /\ PlanIdle
    /\ CdcIdle
    /\ RunIdle
    /\ QueryIdle
    /\ PoolIdle
    /\ SaveIdle
    /\ ParIdle
    /\ SubstIdle
    /\ MzIdle
    /\ TxIdle
    /\ ClIdle
    /\ GetIdle
    /\ HealthIdle
    /\ StreamIdle
    /\ LineageIdle
    /\ SchedIdle
    /\ IdleListIdle

nonIncrVars == <<graphVars, planVars, cdcVars, runVars, queryVars, poolVars, saveVars, parVars,
                 substVars, mzVars, txVars, clVars, getVars, healthVars, streamVars, lineageVars, schedVars, idleVars>>

\* execute_model -> Materializer.materialize -> IncrementalMaterialization
\* .materialize for a model with its strategy's column configured.  check_ok:
\* the query of _check_table_exists did not raise; fail: the number of the
\* statement after it that raises (0: none); max_time: what MAX(time_column)
\* returns.
IncrementalMaterialize ==
    /\ iClock < MaxMaterializations
    /\ \E check_ok \in BOOLEAN, fail \in 0..2, max_time \in MaxTimes :
          LET model_name == GetFullTableName(iConfig, iModel)
              tbl == Resolve(model_name)
              existed == tbl \in iCatalog
              table_exists == CheckTableExists(iCatalog, model_name, check_ok)
              now == iClock + 1
              stored == IF iHasState THEN iLastTime ELSE <<>>
              asks_max == iStrategy = "time" /\ ~TimeTruthy(stored)
              \* the statements of the path, in the order they are issued
              stmts == IF ~table_exists THEN <<"CREATE TABLE">>
                       ELSE IF iStrategy = "time"
                       THEN (IF asks_max THEN <<"SELECT MAX">> ELSE <<>>) \o <<"INSERT">>
                       ELSE IF iStrategy = "unique_key"
                       THEN <<"CREATE TEMP TABLE", "MERGE">>
                       ELSE <<"INSERT">>
              \* CREATE TABLE of a table that exists raises
              failing == IF ~table_exists /\ existed THEN 1
                         ELSE IF fail <= Len(stmts) THEN fail ELSE 0
              failed == failing # 0
              issued == IF failed THEN SubSeq(stmts, 1, failing) ELSE stmts
              last_time == IF TimeTruthy(stored) THEN stored
                           ELSE IF TimeTruthy(max_time) THEN max_time ELSE <<>>
              has_insert == \E i \in 1..Len(issued) : issued[i] = "INSERT"
          IN  /\ iLast' = [called |-> TRUE,
                           existed |-> existed,
                           found |-> table_exists,
                           create |-> \E i \in 1..Len(issued) : issued[i] = "CREATE TABLE",
                           insert |-> IF has_insert /\ iStrategy = "time"
                                      THEN <<[where |-> TimeTruthy(last_time), T |-> last_time]>>
                                      ELSE <<>>,
                           status |-> IF failed THEN "MaterializationError"
                                      ELSE IF table_exists THEN IncrementalStatus(iStrategy)
                                      ELSE "initial_load",
                           failed |-> failed,
                           stored |-> stored,
                           max_time |-> IF asks_max /\ table_exists THEN max_time ELSE <<>>,
                           before |-> iLastTime]
              /\ iCatalog' = IF ~table_exists /\ ~failed THEN iCatalog \cup {tbl} ELSE iCatalog
              /\ iLastTime' = IF iStrategy = "time" /\ iHasState
                              THEN StateAfter(iLastTime, failed, now) ELSE iLastTime
              /\ iOkRun' = IF failed THEN 0 ELSE iOkRun + 1
              /\ iClock' = now
    /\ UNCHANGED <<iStrategy, iModel, iConfig, iHasState, nonIncrVars>>

NextIncr ==
    \/ IncrementalMaterialize

SpecIncr == InitIncr /\ [][NextIncr]_vars

\* C31: materialize reports initial_load and issues CREATE TABLE exactly when
\* the target table does not exist at the call; on an existing target it
\* reports updated, merged or appended and issues no CREATE TABLE; the second
\* of two successful materializations in a row takes the incremental path.
C31_InitialLoadIffAbsent ==
    iLast.called =>
        /\ iLast.create <=> ~iLast.existed
        /\ ~iLast.failed =>
              iLast.status = (IF iLast.existed THEN IncrementalStatus(iStrategy)
                              ELSE "initial_load")
        /\ iOkRun >= 2 => iLast.status = IncrementalStatus(iStrategy)

\* the INSERT that the last call of the time strategy issued
InsertOf(call) == call.insert[1]

\* C32 as stated: the lower bound of every INSERT of the time strategy is
\* the stored last_processed_time when one is set and MAX(time_column)
\* otherwise.
C32_AsStated ==
    (iStrategy = "time" /\ iLast.insert # <<>>) =>
        /\ InsertOf(iLast).where
        /\ InsertOf(iLast).T = (IF iLast.stored # <<>> THEN iLast.stored ELSE iLast.max_time)

\* C32: in the time strategy last_processed_time is written only by a call
\* whose statements all succeeded; a call with a failing statement leaves the
\* state as it was and raises MaterializationError; an INSERT has the lower
\* bound of the stored last_processed_time when one is set, of MAX(time_column)
\* when none is set and the maximum is a true value, and no lower bound when
\* none is set and the maximum is NULL (or 0).
C32_TimeStateAfterSuccess ==
    (iStrategy = "time" /\ iLast.called) =>
        /\ iLastTime # iLast.before => ~iLast.failed
        /\ iLast.failed => (iLastTime = iLast.before /\ iLast.status = "MaterializationError")
        /\ iLast.insert # <<>> =>
              IF TimeTruthy(iLast.stored)
              THEN InsertOf(iLast).where /\ InsertOf(iLast).T = iLast.stored
              ELSE IF TimeTruthy(iLast.max_time)
              THEN InsertOf(iLast).where /\ InsertOf(iLast).T = iLast.max_time
              ELSE ~InsertOf(iLast).where

\* an INSERT bounded by the stored time follows a call whose INSERT failed
\* and left that time in place
C32_Witness ==
    /\ iStrategy = "time"
    /\ iLast.insert # <<>>
    /\ InsertOf(iLast).where
    /\ iLast.stored # <<>>
    /\ InsertOf(iLast).T = iLast.stored
    /\ iLast.failed
    /\ iLastTime = iLast.before

(***************************************************************************)
(* _stream_query_chunks_from_table (cdc_polars.py) on a staging table.  The *)
(* rows are numbered.  Each chunk is one SELECT * FROM staging LIMIT        *)
(* chunk_size OFFSET offset; the statement has no ORDER BY, so the order in *)
(* which a SELECT sees the rows is the choice of the warehouse, made anew   *)
(* for each statement.                                                      *)
(***************************************************************************)
\* A warehouse that returns the rows in the order of their numbers.
RowOrdersStable(rows) == {[i \in 1..Cardinality(rows) |-> i]}

\* the orders in which one SELECT without ORDER BY can return the rows
RowOrders(rows) == PermsOf(rows)

InitStream ==
    /\ sRows \in {1..n : n \in 0..MaxRows}
    /\ sChunkSize \in 1..MaxChunk
    /\ sOffset = 0
    /\ sPc = "query"
    /\ sChunks = <<>>
    /\ sQueries = 0
    /\ nodes = EmptyGraph
    /\ ret = NoRet
    /\ graphOps = 0
    /\ PlanIdle
    /\ CdcIdle
    /\ RunIdle
    /\ QueryIdle
    /\ PoolIdle
    /\ SaveIdle
    /\ ParIdle
    /\ SubstIdle
    /\ MzIdle
    /\ TxIdle
    /\ ClIdle
    /\ GetIdle
    /\ HealthIdle
    /\ IncrIdle
    /\ LineageIdle
    /\ SchedIdle
    /\ IdleListIdle

nonStreamVars == <<graphVars, planVars, cdcVars, runVars, queryVars, poolVars, saveVars, parVars,
                   substVars, mzVars, txVars, clVars, getVars, healthVars, incrVars, lineageVars, schedVars, idleVars>>

\* one turn of the while loop: the SELECT of the chunk at offset; an empty
\* result ends the stream; the chunk is yielded (and processed by the for
\* loop of _process_cdc_with_retirement); a chunk shorter than chunk_size
\* ends the stream
StreamNextChunk ==
    /\ sPc = "query"
    /\ \E order \in RowOrders(sRows) :
          LET df == LimitOffset(order, sChunkSize, sOffset) IN
          /\ sQueries' = sQueries + 1
          /\ IF Len(df) = 0
             THEN /\ sPc' = "done"
                  /\ UNCHANGED <<sChunks, sOffset>>
             ELSE /\ sChunks' = Append(sChunks, df)
                  /\ sOffset' = sOffset + sChunkSize
                  /\ sPc' = IF Len(df) < sChunkSize THEN "done" ELSE "query"
    /\ UNCHANGED <<sRows, sChunkSize, nonStreamVars>>

NextStream ==
    \/ StreamNextChunk

SpecStream == InitStream /\ [][NextStream]_vars

\* ceil(n / c)
CeilDiv(n, c) == (n + c - 1) \div c

\* the number of chunks that row r was yielded in
TimesYielded(r) ==
    Cardinality({<<k, i>> \in (1..Len(sChunks)) \X (1..MaxRows + 1) :
                    i <= Len(sChunks[k]) /\ sChunks[k][i] = r})

\* C33: the stream of a staging table with N rows ends after ceil(N/c)
\* chunks of at most c rows, and every row was yielded in exactly one chunk.
C33_EveryRowInExactlyOneChunk ==
    /\ \A k \in 1..Len(sChunks) : Len(sChunks[k]) <= sChunkSize
    /\ Len(sChunks) <= CeilDiv(Cardinality(sRows), sChunkSize)
    /\ \A r \in sRows : TimesYielded(r) <= 1
    /\ sPc = "done" =>
          /\ Len(sChunks) = CeilDiv(Cardinality(sRows), sChunkSize)
          /\ \A r \in sRows : TimesYielded(r) = 1

(***************************************************************************)
(* LineageTracker.get_column_impact (utils/lineage.py).  A lineage gives    *)
(* each model its dependencies and, for each of its columns, the            *)
(* source_columns as a set of <<table, column>>.  A 'model.column' name is  *)
(* the pair <<model, column>>.                                              *)
(***************************************************************************)
\* get_downstream_models(model_name)
GetDownstreamModels(lin, model_name) ==
    {name \in DOMAIN lin : model_name \in lin[name].dependencies}

\* the columns of the downstream models whose source_columns hold
\* (model_name, column_name)
ImpactedDirectly(lin, model_name, column_name) ==
    {dc \in GetDownstreamModels(lin, model_name) \X LinColumns :
        <<model_name, column_name>> \in lin[dc[1]].columns[dc[2]]}

\* get_column_impact: the recursion has no visited set; a call that comes
\* back to a (model, column) of its own call stack recurses without end,
\* which Python ends with RecursionError
RECURSIVE GetColumnImpact(_, _, _, _)
GetColumnImpact(lin, model_name, column_name, stack) ==
    IF <<model_name, column_name>> \in stack
    THEN [raised |-> TRUE, impacted |-> {}]
    ELSE LET hits == ImpactedDirectly(lin, model_name, column_name)
             further == {GetColumnImpact(lin, dc[1], dc[2],
                                         stack \cup {<<model_name, column_name>>}) : dc \in hits}
         IN  IF \E f \in further : f.raised
             THEN [raised |-> TRUE, impacted |-> {}]
             ELSE [raised |-> FALSE, impacted |-> hits \cup UNION {f.impacted : f \in further}]

\* the source_columns of one column: none or one
SourceColumns == {{}} \cup {{tc} : tc \in LinModels \X LinColumns}

InitLineage ==
    /\ lModels \in [LinModels -> [dependencies : SUBSET LinModels,
                                  columns : [LinColumns -> SourceColumns]]]
    /\ lResult = NoImpact
    /\ nodes = EmptyGraph
    /\ ret = NoRet
    /\ graphOps = 0
    /\ PlanIdle
    /\ CdcIdle
    /\ RunIdle
    /\ QueryIdle
    /\ PoolIdle
    /\ SaveIdle
    /\ ParIdle
    /\ SubstIdle
    /\ MzIdle
    /\ TxIdle
    /\ ClIdle
    /\ GetIdle
    /\ HealthIdle
    /\ IncrIdle
    /\ StreamIdle
    /\ SchedIdle
    /\ IdleListIdle

nonLineageVars == <<graphVars, planVars, cdcVars, runVars, queryVars, poolVars, saveVars, parVars,
                    substVars, mzVars, txVars, clVars, getVars, healthVars, incrVars, streamVars, schedVars, idleVars>>

GetColumnImpactCall ==
    /\ \E model_name \in LinModels, column_name \in LinColumns :
          LET r == GetColumnImpact(lModels, model_name, column_name, {}) IN
          lResult' = [called |-> TRUE, model |-> model_name, column |-> column_name,
                      raised |-> r.raised, impacted |-> r.impacted]
    /\ UNCHANGED <<lModels, nonLineageVars>>

NextLineage ==
    \/ GetColumnImpactCall

SpecLineage == InitLineage /\ [][NextLineage]_vars

\* the columns reachable from the set by k steps of ImpactedDirectly
RECURSIVE ReachColumns(_, _, _)
ReachColumns(lin, found, k) ==
    IF k = 0 THEN found
    ELSE ReachColumns(lin,
                      found \cup UNION {ImpactedDirectly(lin, mc[1], mc[2]) : mc \in found},
                      k - 1)

\* C34: get_column_impact(model, col) returns, for every lineage, the set of
\* the columns reachable from (model, col) through downstream columns whose
\* source_columns hold the column before them.
C34_ColumnImpactIsReachable ==
    lResult.called =>
        /\ ~lResult.raised
        /\ lResult.impacted =
              ReachColumns(lModels, ImpactedDirectly(lModels, lResult.model, lResult.column),
                           Cardinality(LinModels \X LinColumns))

(***************************************************************************)
(* The dependency graph with the record of the names that were given to     *)
(* add_model as model_name.  The dependencies of a model are what the       *)
(* parser found in its SQL: refs to other models and names of tables that   *)
(* are no model.                                                            *)
(***************************************************************************)
InitSched ==
    /\ added = {}
    /\ nodes = EmptyGraph
    /\ ret = NoRet
    /\ graphOps = 0
    /\ PlanIdle
    /\ CdcIdle
    /\ RunIdle
    /\ QueryIdle
    /\ PoolIdle
    /\ SaveIdle
    /\ ParIdle
    /\ SubstIdle
    /\ MzIdle
    /\ TxIdle
    /\ ClIdle
    /\ GetIdle
    /\ HealthIdle
    /\ IncrIdle
    /\ StreamIdle
    /\ LineageIdle
    /\ IdleListIdle

nonSchedVars == <<planVars, cdcVars, runVars, queryVars, poolVars, saveVars, parVars,
                  substVars, mzVars, txVars, clVars, getVars, healthVars, incrVars, streamVars,
                  lineageVars, idleVars>>

\* add_model(model_name, dependencies)
SchedAddModel ==
    /\ graphOps < MaxGraphOps
    /\ \E name \in Names, deps \in SUBSET Names, perm \in Perms :
          /\ nodes' = AddModel(nodes, name, deps, perm)
          /\ added' = added \cup {name}
    /\ ret' = NoRet
    /\ graphOps' = graphOps + 1
    /\ UNCHANGED nonSchedVars

\* topological_sort()
SchedTopologicalSort ==
    /\ ret.op = "none"
    /\ \E perm \in Perms :
          LET r == TopologicalSort(nodes, perm) IN
          ret' = [NoRet EXCEPT !.op = "topological_sort", !.status = r.status, !.levels = r.levels]
    /\ UNCHANGED <<nodes, graphOps, added, nonSchedVars>>

\* get_execution_order(models) for one model of the project
SchedGetExecutionOrder ==
    /\ ret.op = "none"
    /\ \E name \in added, perm \in Perms :
          LET r == GetExecutionOrder(nodes, <<name>>, perm) IN
          ret' = [NoRet EXCEPT !.op = "get_execution_order", !.status = r.status,
                               !.levels = r.levels]
    /\ UNCHANGED <<nodes, graphOps, added, nonSchedVars>>

NextSched ==
    \/ SchedAddModel
    \/ SchedTopologicalSort
    \/ SchedGetExecutionOrder

SpecSched == InitSched /\ [][NextSched]_vars

\* C35: every name in the levels that topological_sort and
\* get_execution_order return was passed as model_name to add_model.
C35_OnlyAddedModelsScheduled ==
    (ret.op \in {"topological_sort", "get_execution_order"} /\ ret.status = "ok") =>
        Range(Flatten(ret.levels)) \subseteq added

(***************************************************************************)
(* The idle list of a ConnectionPool under concurrent initialize,           *)
(* get_connection and close_all calls (connection.py).  The connections are *)
(* numbered in the order of their creation.  A block under self._lock is    *)
(* one step; the tests of _initialized are made without the lock.           *)
(* _create_connection succeeds and the health check passes.                 *)
(***************************************************************************)
InitIdleList ==
    /\ cPoolSize \in 1..MaxPoolSize
    /\ cLazyInit \in BOOLEAN
    /\ cInitialized = FALSE
    /\ cPool = <<>>
    /\ cNextConn = 1
    /\ cPc = [t \in IdleThreads |-> "start"]
    /\ cConn = [t \in IdleThreads |-> 0]
    /\ nodes = EmptyGraph
    /\ ret = NoRet
    /\ graphOps = 0
    /\ PlanIdle
    /\ CdcIdle
    /\ RunIdle
    /\ QueryIdle
    /\ PoolIdle
    /\ SaveIdle
    /\ ParIdle
    /\ SubstIdle
    /\ MzIdle
    /\ TxIdle
    /\ ClIdle
    /\ GetIdle
    /\ HealthIdle
    /\ IncrIdle
    /\ StreamIdle
    /\ LineageIdle
    /\ SchedIdle

nonIdleVars == <<graphVars, planVars, cdcVars, runVars, queryVars, poolVars, saveVars, parVars,
                 substVars, mzVars, txVars, clVars, getVars, healthVars, incrVars, streamVars,
                 lineageVars, schedVars>>

\* get_connection: `if not self._initialized: self.initialize()`
IdleGetConnection(t) ==
    /\ cPc[t] = "start"
    /\ cPc' = [cPc EXCEPT ![t] = IF cInitialized THEN "acquire" ELSE "initialize_get"]
    /\ UNCHANGED <<cPoolSize, cLazyInit, cInitialized, cPool, cNextConn, cConn, nonIdleVars>>

\* a caller of initialize()
IdleInitializeCall(t) ==
    /\ cPc[t] = "start"
    /\ cPc' = [cPc EXCEPT ![t] = "initialize"]
    /\ UNCHANGED <<cPoolSize, cLazyInit, cInitialized, cPool, cNextConn, cConn, nonIdleVars>>

\* initialize: `if self._initialized: return`
IdleInitializeTest(t) ==
    /\ cPc[t] \in {"initialize", "initialize_get"}
    /\ cPc' = [cPc EXCEPT ![t] =
                  IF cInitialized
                  THEN (IF cPc[t] = "initialize" THEN "start" ELSE "acquire")
                  ELSE (IF cPc[t] = "initialize" THEN "init_body" ELSE "init_body_get")]
    /\ UNCHANGED <<cPoolSize, cLazyInit, cInitialized, cPool, cNextConn, cConn, nonIdleVars>>

\* the connections numbered from next on, n of them
NewConnections(next, n) == [i \in 1..n |-> next + i - 1]

\* initialize after the test: with lazy_init the flag is set; otherwise,
\* under the lock, pool_size connections are created and appended to
\* self._pool and the flag is set
IdleInitializeBody(t) ==
    /\ cPc[t] \in {"init_body", "init_body_get"}
    /\ IF cLazyInit
       THEN UNCHANGED <<cPool, cNextConn>>
       ELSE /\ cNextConn + cPoolSize - 1 <= MaxConns
            /\ cPool' = cPool \o NewConnections(cNextConn, cPoolSize)
            /\ cNextConn' = cNextConn + cPoolSize
    /\ cInitialized' = TRUE
    /\ cPc' = [cPc EXCEPT ![t] = IF cPc[t] = "init_body" THEN "start" ELSE "acquire"]
    /\ UNCHANGED <<cPoolSize, cLazyInit, cConn, nonIdleVars>>

\* get_connection, the block under the lock: the first idle connection is
\* popped, or a connection is created
IdleAcquire(t) ==
    /\ cPc[t] = "acquire"
    /\ IF cPool # <<>>
       THEN /\ cConn' = [cConn EXCEPT ![t] = Head(cPool)]
            /\ cPool' = Tail(cPool)
            /\ UNCHANGED cNextConn
       ELSE /\ cNextConn <= MaxConns
            /\ cConn' = [cConn EXCEPT ![t] = cNextConn]
            /\ cNextConn' = cNextConn + 1
            /\ UNCHANGED cPool
    /\ cPc' = [cPc EXCEPT ![t] = "holding"]
    /\ UNCHANGED <<cPoolSize, cLazyInit, cInitialized, nonIdleVars>>

\* get_connection, the finally block under the lock: the connection is
\* appended if the list has room and closed otherwise
AfterRelease(pool, conn, pool_size) ==
    IF Len(pool) < pool_size THEN Append(pool, conn) ELSE pool

IdleRelease(t) ==
    /\ cPc[t] = "holding"
    /\ cPool' = AfterRelease(cPool, cConn[t], cPoolSize)
    /\ cConn' = [cConn EXCEPT ![t] = 0]
    /\ cPc' = [cPc EXCEPT ![t] = "start"]
    /\ UNCHANGED <<cPoolSize, cLazyInit, cInitialized, cNextConn, nonIdleVars>>

\* close_all, under the lock: the idle connections are closed, the list is
\* emptied and the flag is reset
IdleCloseAll(t) ==
    /\ cPc[t] = "start"
    /\ cPool' = <<>>
    /\ cInitialized' = FALSE
    /\ UNCHANGED <<cPoolSize, cLazyInit, cNextConn, cPc, cConn, nonIdleVars>>

NextIdleList ==
    \E t \in IdleThreads :
        \/ IdleGetConnection(t)
        \/ IdleInitializeCall(t)
        \/ IdleInitializeTest(t)
        \/ IdleInitializeBody(t)
        \/ IdleAcquire(t)
        \/ IdleRelease(t)
        \/ IdleCloseAll(t)

SpecIdleList == InitIdleList /\ [][NextIdleList]_vars

\* C40: in every reachable state the idle list holds at most pool_size
\* connections and holds no connection twice.
C40_IdleListBounded ==
    /\ Len(cPool) <= cPoolSize
    /\ \A i \in 1..Len(cPool) : \A j \in 1..Len(cPool) : cPool[i] = cPool[j] => i = j

====
